---- MODULE Spec2Model ----
(***************************************************************************)
(* Crystal3D: the CIF -> OBJ -> USDZ conversion pipeline.                  *)
(*                                                                         *)
(* The model follows converter/main_converter.py (CIFToUSDZConverter),     *)
(* the three packaging backends it drives (converter/usdz_converter.py,    *)
(* the AppleUSDConverter written by scripts/install_apple_usd_tools.py,    *)
(* scripts/docker_usdzconvert.py), the module-level material_standardizer  *)
(* singleton and the caller in api/routes.py, which shares one converter   *)
(* object between all requests.                                            *)
(***************************************************************************)
EXTENDS Integers, Sequences, FiniteSets, TLC

\* ------------------------------------------------------------------------
\* Bounds of the model
\* ------------------------------------------------------------------------

\* Conversions started on the shared converter during one run.
MaxConversions == 2

\* The largest number of atoms a parsed structure holds.
MaxAtoms == 1

\* ------------------------------------------------------------------------
\* Program constants
\* ------------------------------------------------------------------------

\* Positional arguments of the orchestrator's call of a backend method:
\* (obj_file_path, output_path, mtl_file_path).
OrchestratorCallArgs == 3

\* Parameters DockerUsdzConverter.convert_obj_to_usdz accepts besides self:
\* (obj_path, usdz_path).
DockerMethodParams == 2

\* Callers of convert_cif_to_usdz: request handlers or scripts that hold the
\* same converter object.
Threads == {"t1", "t2"}

\* The atom count of a conversion that has parsed no structure yet.
NoAtoms == -1

\* tempfile.mkdtemp returns a path that did not exist; None is modelled as 0.
NoDir == 0

\* The list with the Docker backend moved ahead of the Apple backend.
converter_priority_swapped ==
    << [name |-> "Pixar USD",  key |-> "pixar_usd",  method |-> "convert_obj_to_usdz"],
       [name |-> "Docker USD", key |-> "docker_usd", method |-> "convert_obj_to_usdz"],
       [name |-> "Apple USD",  key |-> "apple_usd",  method |-> "convert_obj_to_usdz"] >>

\* converter_priority of _convert_obj_to_usdz.
converter_priority ==
    << [name |-> "Pixar USD",  key |-> "pixar_usd",  method |-> "convert_obj_to_usdz"],
       [name |-> "Apple USD",  key |-> "apple_usd",  method |-> "convert_obj_to_usdz"],
       [name |-> "Docker USD", key |-> "docker_usd", method |-> "convert_obj_to_usdz"] >>

BackendKeys == {converter_priority[i].key : i \in 1..Len(converter_priority)}

\* What the usdzconvert process started by AppleUSDConverter can do.
AppleEnv == {"exit0_nonempty", "exit0_empty", "exit0_nofile", "nonzero",
             "timeout"}

\* What the docker run started by DockerUsdzConverter can do.
DockerEnv == {"exit0_output", "nonzero", "timeout"}

\* What the packaging part of USDZConverter.convert_with_python_usd can do.
PixarEnv == {"packaged", "failed"}

VARIABLES
    usdz_converters,           \* keys of self.usdz_converters
    cif_converters,            \* keys of self.cif_converters
    temp_dir,                  \* self.temp_dir of the shared converter
    dirs,                      \* scratch directories that exist on disk
    nextDir,                   \* next path mkdtemp hands out
    preserve_original_colors,  \* material_standardizer.preserve_original_colors
    prefWriter,                \* who wrote preserve_original_colors last
    started,                   \* conversions started so far
    conv,                      \* per caller: the conversion it is running
    rc,                        \* a ReliableCIFConverter and its current call
    ms,                        \* an OBJ/MTL pair under standardize_obj_materials
    bd,                        \* a get_bonds call of a CIF backend
    mb,                        \* a structure and the OBJ mesh a CIF backend makes of it
    om                         \* the OutputManager, its sessions and their directories

vars == << usdz_converters, cif_converters, temp_dir, dirs, nextDir,
           preserve_original_colors, prefWriter, started, conv, rc, ms, bd, mb, om >>

\* The state of CIFToUSDZConverter, its callers and the shared singleton.
orch == << usdz_converters, cif_converters, temp_dir, dirs, nextDir,
           preserve_original_colors, prefWriter, started, conv >>

\* The state of the components that are also used on their own.
parts == << rc, ms, bd, mb, om >>

shared == << temp_dir, dirs, nextDir, preserve_original_colors, prefWriter >>
config == << usdz_converters, cif_converters >>

\* ------------------------------------------------------------------------
\* Values
\* ------------------------------------------------------------------------

NoObj == [geom |-> FALSE, mtl |-> FALSE, std |-> FALSE]

NoResult == [returned |-> FALSE, success |-> FALSE, message |-> "none",
             steps |-> << >>]

NoUsdz == [returned |-> FALSE, success |-> FALSE, converter |-> "none",
           failed |-> << >>]

\* A conversion that has not started.
IdleConv ==
    [pc        |-> "idle",
     myDir     |-> NoDir,     \* the directory this conversion's mkdtemp made
     objDir    |-> NoDir,     \* the directory _convert_cif_to_obj wrote into
     obj       |-> NoObj,     \* the intermediate OBJ / MTL pair
     atoms     |-> NoAtoms,   \* len(structure) of the parsed CIF
     idx       |-> 1,         \* position in converter_priority
     attempts  |-> << >>,     \* conversion_attempts
     calls     |-> << >>,     \* backend methods called, in order
     cause     |-> [k \in BackendKeys |-> "none"],  \* what happened in each call
     capable   |-> {},        \* backends whose tool would have produced the file
     output    |-> "absent",  \* the file at output_path
     saved     |-> FALSE,     \* original_preserve_setting
     readFrom  |-> "none",    \* whose write _analyze_materials read
     usdz      |-> NoUsdz,    \* what _convert_obj_to_usdz returned
     result    |-> NoResult]  \* what convert_cif_to_usdz returned

\* The result dictionary convert_cif_to_obj starts from.
NoRcResult == [success |-> FALSE, converter_used |-> "none", error |-> "none",
               warnings |-> << >>]

\* A ReliableCIFConverter that has not been constructed.
IdleRc ==
    [pc         |-> "unbuilt",
     converters |-> {},        \* keys of self.converters
     calls      |-> 0,         \* convert_cif_to_obj calls so far
     preferred  |-> "none",    \* preferred_converter of the current call
     order      |-> << >>,     \* converter_order of the current call
     pos        |-> 1,         \* position of the loop in converter_order
     tried      |-> << >>,     \* backends the loop has tried, with what they did
     seen       |-> << >>,     \* (preferred, order) of the earlier calls
     result     |-> NoRcResult]

\* No structure read yet.
IdleMb ==
    [pc            |-> "idle",
     backend       |-> "none",
     via           |-> "none",   \* who calls convert_to_obj
     scale_factor  |-> 1,        \* the scale factor the conversion asks for
     resolution    |-> 1,        \* the sphere resolution
     atoms         |-> << >>,    \* the sites: symbol and position
     io            |-> "none",   \* whether writing the files raised
     success       |-> FALSE,    \* what convert_to_obj returned
     bonds         |-> << >>,    \* what get_bonds returned
     groups        |-> << >>,    \* the OBJ file: a sphere or a cylinder each
     vertex_offset |-> 0]        \* vertices written

\* An OutputManager over an empty base directory.
IdleOm ==
    [now      |-> 0,        \* datetime.now(), in seconds
     pc       |-> "idle",   \* where the request under way stands
     sessions |-> << >>,    \* what create_conversion_session returned, in order
     disk     |-> << >>]    \* the session directories under base_output_dir

\* No get_bonds call made yet.
IdleBd ==
    [pc        |-> "idle",
     backend   |-> "none",
     n         |-> 0,        \* len(structure) / len(atoms)
     i         |-> 0,        \* the site the loop is at
     neighbors |-> << >>,    \* what the neighbour search returned last
     bonds     |-> << >>]    \* the bonds list

\* No OBJ/MTL pair handed to the standardizer yet.
IdleMs ==
    [pc       |-> "empty",
     mtl      |-> << >>,     \* the MTL file: its newmtl / Kd entries
     obj      |-> << >>,     \* the OBJ file: its usemtl lines
     preserve |-> FALSE,     \* the preserve_colors argument
     passes   |-> 0,         \* standardize_obj_materials calls so far
     okRun    |-> 0,         \* how many of the last calls in a row returned True
     ok       |-> FALSE,     \* what the last call returned
     prevMtl  |-> << >>,     \* the MTL file before the last call
     prevObj  |-> << >>,     \* the OBJ file before the last call
     log      |-> << >>]     \* what the last call inferred for each material

\* A backend's return value, or the exception it raised.
Tuple(s, m) == [shape |-> "tuple", success |-> s, message |-> m]
Dict(s, m)  == [shape |-> "dict",  success |-> s, message |-> m]
Raise(m)    == [shape |-> "raise", success |-> FALSE, message |-> m]

\* ------------------------------------------------------------------------
\* The packaging backends
\* ------------------------------------------------------------------------

\* os.path.exists(obj_path): the OBJ lives in the directory it was written to.
ObjExists(c) == c.objDir # NoDir /\ c.objDir \in dirs

\* The is_available probe of _convert_obj_to_usdz.  USDZConverter.is_available
\* (its last definition) returns True; AppleUSDConverter.is_available depends
\* on the usdzconvert tool; DockerUsdzConverter.is_available is a bool
\* attribute, so calling it raises TypeError.
IsAvailable(key, appleTool) ==
    CASE key = "pixar_usd"  -> "available"
      [] key = "apple_usd"  -> IF appleTool THEN "available" ELSE "unavailable"
      [] key = "docker_usd" -> "error"

\* The output file after the usdzconvert process ran.
AppleRun(env, out) ==
    CASE env = "exit0_nonempty" -> "nonempty"
      [] env = "exit0_empty"    -> "empty"
      [] OTHER                  -> out

\* A timeout reported like any other failed conversion.
AppleTimeoutResultGeneric == Dict(FALSE, "apple_failed")

\* AppleUSDConverter.convert_obj_to_usdz, a timeout reported with its own
\* message.
AppleTimeoutResult == Dict(FALSE, "apple_timeout")

AppleConvertObjToUsdz(env, objExists, out) ==
    IF ~objExists
    THEN [res |-> Dict(FALSE, "apple_obj_not_found"), out |-> out]
    ELSE CASE env = "timeout"   -> [res |-> AppleTimeoutResult, out |-> out]
           [] OTHER ->
                LET out2 == AppleRun(env, out)
                    exit0 == env # "nonzero"
                IN  IF exit0 /\ out2 # "absent"
                    THEN [res |-> Dict(TRUE, "apple_ok"), out |-> out2]
                    ELSE [res |-> Dict(FALSE, "apple_failed"), out |-> out2]

\* DockerUsdzConverter.convert_obj_to_usdz called with nargs positional
\* arguments: Python raises TypeError before the body runs when nargs is not
\* the number of parameters.
DockerConvertObjToUsdz(nargs, env, objExists, out) ==
    IF nargs # DockerMethodParams
    THEN [res |-> Raise("TypeError"), out |-> out]
    ELSE IF ~objExists
    THEN [res |-> Tuple(FALSE, "docker_obj_missing"), out |-> out]
    ELSE CASE env = "exit0_output" -> [res |-> Tuple(TRUE, "docker_ok"), out |-> "nonempty"]
           [] env = "timeout"      -> [res |-> Tuple(FALSE, "docker_timeout"), out |-> out]
           [] OTHER                -> [res |-> Tuple(FALSE, "docker_failed"), out |-> out]

\* USDZConverter.convert_obj_to_usdz up to the material step: what it does
\* with the OBJ it is given.
PixarEntry(objExists, obj) ==
    IF ~objExists THEN "obj_missing"
    ELSE IF ~obj.geom THEN "no_geometry"
    ELSE IF obj.mtl THEN "standardize"
    ELSE "package"

\* A package step that reports success whether or not it wrote the file.
PixarPackageResultClaimsSuccess(env, out) ==
    [res |-> Tuple(TRUE, "pixar_ok"),
     out |-> IF env = "packaged" THEN "nonempty" ELSE out]

\* USDZConverter: the package step and the tuple convert_obj_to_usdz returns.
PixarPackageResult(env, out) ==
    IF env = "packaged"
    THEN [res |-> Tuple(TRUE, "pixar_ok"), out |-> "nonempty"]
    ELSE [res |-> Tuple(FALSE, "pixar_failed"), out |-> out]

\* ------------------------------------------------------------------------
\* _convert_obj_to_usdz and convert_cif_to_usdz
\* ------------------------------------------------------------------------

\* An entry whose success flag is the truth value of the returned object:
\* a tuple or a dictionary that is not empty counts as success.
AttemptEntryTruthy(name, res) ==
    IF res.shape = "raise"
    THEN [converter |-> name, success |-> FALSE, message |-> res.message,
          error_type |-> "exception"]
    ELSE [converter |-> name, success |-> TRUE, message |-> res.message,
          error_type |-> "none"]

\* The entry appended to conversion_attempts for a backend's result: the
\* except clause records a raised exception, otherwise the result's success
\* flag and message are unpacked.
AttemptEntry(name, res) ==
    IF res.shape = "raise"
    THEN [converter |-> name, success |-> FALSE, message |-> res.message,
          error_type |-> "exception"]
    ELSE [converter |-> name, success |-> res.success, message |-> res.message,
          error_type |-> IF res.success THEN "none" ELSE "conversion_failed"]

SkippedEntry(name, why) ==
    [converter |-> name, success |-> FALSE,
     message |-> why, error_type |-> why]

\* if success and os.path.exists(output_path)
IsWinner(entry, out) == entry.success /\ out # "absent"

\* failed_converters
RECURSIVE FailedConverters(_)
FailedConverters(as) ==
    IF as = << >> THEN << >>
    ELSE IF ~Head(as).success
         THEN << Head(as).converter >> \o FailedConverters(Tail(as))
         ELSE FailedConverters(Tail(as))

Step(name, ok) == [step |-> name, success |-> ok]

\* convert_cif_to_usdz returning (success, message, conversion_info).
Return(c, ok, msg, steps) ==
    [c EXCEPT !.pc = "returned",
              !.result = [returned |-> TRUE, success |-> ok, message |-> msg,
                          steps |-> steps]]

\* A handler that lets the exception go on to the caller.
OuterHandlerReraise(c) == [c EXCEPT !.pc = "propagated"]

\* except Exception as e: of convert_cif_to_usdz.
OuterHandler(c) == Return(c, FALSE, "error", c.result.steps)

\* _convert_obj_to_usdz has returned (ok, message, info) with the attempts
\* in c; the rest of convert_cif_to_usdz: record the step, fail on failure,
\* verify that the output file exists.
AfterUsdz(c, ok, key) ==
    LET c1 == [c EXCEPT !.usdz = [returned |-> TRUE, success |-> ok,
                                   converter |-> key,
                                   failed |-> IF ok THEN << >>
                                              ELSE FailedConverters(c.attempts)]]
        steps == << Step("cif_to_obj", TRUE), Step("obj_to_usdz", ok) >>
    IN  IF ~ok THEN Return(c1, FALSE, "usdz_failed", steps)
        ELSE IF c.output # "absent" THEN Return(c1, TRUE, "ok", steps)
        ELSE Return(c1, FALSE, "no_output", steps)

\* A loop that gives up at the first backend that does not win.
AfterAttemptStopOnFailure(c, key, res, out, why, cap) ==
    LET entry == AttemptEntry(converter_priority[c.idx].name, res)
        c1 == [c EXCEPT !.attempts = Append(@, entry),
                        !.output = out,
                        !.cause[key] = why,
                        !.capable = IF cap THEN @ \cup {key} ELSE @]
    IN  AfterUsdz(c1, IsWinner(entry, out), IF IsWinner(entry, out) THEN key ELSE "none")

\* A backend was called and answered res, leaving the output file in state
\* out: record the attempt, return on a winner, otherwise go on with the
\* next backend of the list.
AfterAttempt(c, key, res, out, why, cap) ==
    LET entry == AttemptEntry(converter_priority[c.idx].name, res)
        c1 == [c EXCEPT !.attempts = Append(@, entry),
                        !.output = out,
                        !.cause[key] = why,
                        !.capable = IF cap THEN @ \cup {key} ELSE @]
    IN  IF IsWinner(entry, out)
        THEN AfterUsdz(c1, TRUE, key)
        ELSE [c1 EXCEPT !.pc = "pkg", !.idx = @ + 1]

\* The backend method is called: the call is logged with the number of
\* attempts recorded so far, whether the backend goes on to read the
\* materials, the state of the materials it reads, and whether the OBJ and
\* MTL files it is handed have been rewritten since the CIF step wrote them.
Called(c, key, used) ==
    [c EXCEPT !.calls = Append(@, [key |-> key, recorded |-> Len(c.attempts),
                                   used |-> used,
                                   mtl |-> c.obj.mtl, std |-> c.obj.std,
                                   given |-> c.obj.std])]

InLoop(c) == c.pc = "pkg" /\ c.idx <= Len(converter_priority)
CurrentKey(c) == converter_priority[c.idx].key

\* ------------------------------------------------------------------------
\* Initial state: CIFToUSDZConverter.__init__ and the module singletons
\* ------------------------------------------------------------------------

Init ==
    /\ usdz_converters \in SUBSET BackendKeys
    /\ cif_converters \in {{}, {"reliable"}}
    /\ temp_dir = NoDir
    /\ dirs = {}
    /\ nextDir = 1
    /\ preserve_original_colors = FALSE
    /\ prefWriter = "init"
    /\ started = 0
    /\ conv = [t \in Threads |-> IdleConv]
    /\ rc = IdleRc
    /\ ms = IdleMs
    /\ bd = IdleBd
    /\ mb = IdleMb
    /\ om = IdleOm

\* ------------------------------------------------------------------------
\* convert_cif_to_usdz, step by step
\* ------------------------------------------------------------------------

\* A caller enters convert_cif_to_usdz with a fresh output path: the three
\* early returns, otherwise on to the try block.
StartConversion(t) ==
    /\ conv[t].pc = "idle"
    /\ started < MaxConversions
    /\ started' = started + 1
    /\ \E cifExists \in BOOLEAN :
         conv' = [conv EXCEPT ![t] =
            IF ~cifExists THEN Return(IdleConv, FALSE, "cif_missing", << >>)
            ELSE IF cif_converters = {}
                 THEN Return(IdleConv, FALSE, "no_cif_converter", << >>)
            ELSE IF usdz_converters = {}
                 THEN Return(IdleConv, FALSE, "no_usdz_converter", << >>)
            ELSE [IdleConv EXCEPT !.pc = "mkdtemp"]]
    /\ UNCHANGED << shared, config, parts >>

\* self.temp_dir = tempfile.mkdtemp(...); an OSError goes to the handler of
\* convert_cif_to_usdz.
Mkdtemp(t) ==
    /\ conv[t].pc = "mkdtemp"
    /\ \E ok \in BOOLEAN :
         IF ok
         THEN /\ temp_dir' = nextDir
              /\ dirs' = dirs \cup {nextDir}
              /\ nextDir' = nextDir + 1
              /\ conv' = [conv EXCEPT ![t].pc = "cif", ![t].myDir = nextDir]
         ELSE /\ conv' = [conv EXCEPT ![t] = OuterHandler(conv[t])]
              /\ UNCHANGED << temp_dir, dirs, nextDir >>
    /\ UNCHANGED << preserve_original_colors, prefWriter, started, config, parts >>

\* convert_to_obj of the parsing backends: one sphere is written for each
\* atom of the structure, whatever their number, and the method answers
\* True unless writing raised.
ConvertToObj(atoms, written) == written

\* The OBJ holds vertices exactly when the structure holds atoms.
HasGeometry(atoms) == atoms > 0

\* A pipeline that goes on to packaging whatever the CIF step answered.
AfterCifIgnoreFailure(c, cif_success, atoms, mtl, dir) ==
    [c EXCEPT !.pc = "pkg",
              !.atoms = atoms,
              !.objDir = dir,
              !.obj = [geom |-> HasGeometry(atoms), mtl |-> mtl, std |-> FALSE],
              !.result.steps = << Step("cif_to_obj", cif_success) >>]

\* _convert_cif_to_obj has returned cif_success: the cif_to_obj step is
\* recorded and a failure is returned at once, otherwise the conversion
\* goes on to packaging with the files written into dir.
AfterCif(c, cif_success, atoms, mtl, dir) ==
    IF ~cif_success
    THEN Return([c EXCEPT !.atoms = atoms], FALSE, "cif_failed",
                << Step("cif_to_obj", FALSE) >>)
    ELSE [c EXCEPT !.pc = "pkg",
                   !.atoms = atoms,
                   !.objDir = dir,
                   !.obj = [geom |-> HasGeometry(atoms), mtl |-> mtl, std |-> FALSE],
                   !.result.steps = << Step("cif_to_obj", TRUE) >>]

\* _convert_cif_to_obj: the OBJ path is built from self.temp_dir as it is
\* now (os.path.join(None, ...) raises, which the method reports as a
\* failure); the CIF converter then fails to parse, or parses a structure
\* of some number of atoms and writes the OBJ, with or without an MTL file.
CifToObj(t) ==
    /\ conv[t].pc = "cif"
    /\ \E parsed \in BOOLEAN, atoms \in 0..MaxAtoms, written \in BOOLEAN,
          mtl \in BOOLEAN :
         conv' = [conv EXCEPT ![t] =
            IF temp_dir = NoDir \/ temp_dir \notin dirs \/ ~parsed
            THEN AfterCif(conv[t], FALSE, NoAtoms, FALSE, NoDir)
            ELSE AfterCif(conv[t], ConvertToObj(atoms, written), atoms, mtl,
                          temp_dir)]
    /\ UNCHANGED << shared, config, started, parts >>

\* The backend of this position is not in self.usdz_converters.
SkipNotConfigured(t) ==
    /\ InLoop(conv[t])
    /\ CurrentKey(conv[t]) \notin usdz_converters
    /\ conv' = [conv EXCEPT ![t].attempts =
                   Append(@, SkippedEntry(converter_priority[conv[t].idx].name,
                                          "not_configured")),
                            ![t].idx = @ + 1]
    /\ UNCHANGED << shared, config, started, parts >>

\* converter.is_available() answered False.
SkipUnavailable(t) ==
    /\ InLoop(conv[t])
    /\ CurrentKey(conv[t]) \in usdz_converters
    /\ \E appleTool \in BOOLEAN :
         IsAvailable(CurrentKey(conv[t]), appleTool) = "unavailable"
    /\ conv' = [conv EXCEPT ![t].attempts =
                   Append(@, SkippedEntry(converter_priority[conv[t].idx].name,
                                          "unavailable")),
                            ![t].idx = @ + 1]
    /\ UNCHANGED << shared, config, started, parts >>

\* The Apple backend is available and is called.
AppleAttempt(t) ==
    /\ InLoop(conv[t])
    /\ CurrentKey(conv[t]) = "apple_usd"
    /\ "apple_usd" \in usdz_converters
    /\ IsAvailable("apple_usd", TRUE) # "unavailable"
    /\ \E env \in AppleEnv :
         LET c == Called(conv[t], "apple_usd", ObjExists(conv[t]))
             r == AppleConvertObjToUsdz(env, ObjExists(c), c.output)
         IN  conv' = [conv EXCEPT ![t] = AfterAttempt(c, "apple_usd", r.res, r.out, env,
                                                      env = "exit0_nonempty")]
    /\ UNCHANGED << shared, config, started, parts >>

\* The Docker backend: the availability probe raises and is ignored, then
\* the method is called with the orchestrator's three arguments.
DockerAttempt(t) ==
    /\ InLoop(conv[t])
    /\ CurrentKey(conv[t]) = "docker_usd"
    /\ "docker_usd" \in usdz_converters
    /\ IsAvailable("docker_usd", TRUE) # "unavailable"
    /\ \E env \in DockerEnv :
         LET c == Called(conv[t], "docker_usd",
                         OrchestratorCallArgs = DockerMethodParams /\ ObjExists(conv[t]))
             r == DockerConvertObjToUsdz(OrchestratorCallArgs, env, ObjExists(c), c.output)
             why == IF r.res.shape = "raise" THEN "call_error" ELSE env
         IN  conv' = [conv EXCEPT ![t] = AfterAttempt(c, "docker_usd", r.res, r.out, why,
                                                      env = "exit0_output")]
    /\ UNCHANGED << shared, config, started, parts >>

\* The Pixar backend is called.  It answers at once when the OBJ is missing
\* or holds no geometry; with an MTL file it enters
\* material_standardizer.standardize_obj_materials(preserve_colors=False),
\* which saves the singleton's setting and overwrites it.
PixarBegin(t) ==
    /\ InLoop(conv[t])
    /\ CurrentKey(conv[t]) = "pixar_usd"
    /\ "pixar_usd" \in usdz_converters
    /\ IsAvailable("pixar_usd", TRUE) # "unavailable"
    /\ LET c == Called(conv[t], "pixar_usd", FALSE)
           e == PixarEntry(ObjExists(c), c.obj)
       IN  CASE e = "obj_missing" ->
                  /\ conv' = [conv EXCEPT ![t] =
                        AfterAttempt(c, "pixar_usd", Tuple(FALSE, "pixar_obj_missing"),
                                     c.output, e, FALSE)]
                  /\ UNCHANGED << preserve_original_colors, prefWriter >>
             [] e = "no_geometry" ->
                  /\ conv' = [conv EXCEPT ![t] =
                        AfterAttempt(c, "pixar_usd", Tuple(FALSE, "pixar_failed"),
                                     c.output, e, FALSE)]
                  /\ UNCHANGED << preserve_original_colors, prefWriter >>
             [] e = "standardize" ->
                  /\ conv' = [conv EXCEPT ![t] =
                        [c EXCEPT !.pc = "std", !.saved = preserve_original_colors]]
                  /\ preserve_original_colors' = FALSE
                  /\ prefWriter' = t
             [] OTHER ->
                  /\ conv' = [conv EXCEPT ![t] = [c EXCEPT !.pc = "pixar_pkg"]]
                  /\ UNCHANGED << preserve_original_colors, prefWriter >>
    /\ UNCHANGED << temp_dir, dirs, nextDir, config, started, parts >>

\* _analyze_materials reads the singleton's setting, the OBJ and MTL files
\* are rewritten (or an exception makes the standardizer report failure and
\* the backend goes on with the original materials), and the finally clause
\* writes the saved setting back.
StdAnalyze(t) ==
    /\ conv[t].pc = "std"
    /\ \E ok \in BOOLEAN :
         conv' = [conv EXCEPT ![t].pc = "pixar_pkg",
                              ![t].readFrom = prefWriter,
                              ![t].obj.std = ok]
    /\ preserve_original_colors' = conv[t].saved
    /\ prefWriter' = t
    /\ UNCHANGED << temp_dir, dirs, nextDir, config, started, parts >>

\* The Pixar backend reads the materials as they are now, packages the
\* stage and returns its tuple.
PixarPackage(t) ==
    /\ conv[t].pc = "pixar_pkg"
    /\ \E env \in PixarEnv :
         LET c == [conv[t] EXCEPT !.calls[Len(conv[t].calls)].used = TRUE,
                                  !.calls[Len(conv[t].calls)].std = conv[t].obj.std]
             r == PixarPackageResult(env, c.output)
         IN  conv' = [conv EXCEPT ![t] =
                AfterAttempt(c, "pixar_usd", r.res, r.out, env, env = "packaged")]
    /\ UNCHANGED << shared, config, started, parts >>

\* The loop is over without a winner: the aggregate failure is returned.
AllFailed(t) ==
    /\ conv[t].pc = "pkg"
    /\ conv[t].idx > Len(converter_priority)
    /\ conv' = [conv EXCEPT ![t] = AfterUsdz(conv[t], FALSE, "none")]
    /\ UNCHANGED << shared, config, started, parts >>

\* ------------------------------------------------------------------------
\* The callers
\* ------------------------------------------------------------------------

\* The request handlers of api/routes.py call _cleanup_temp_dir in their
\* finally clause once convert_cif_to_usdz has returned: the directory
\* self.temp_dir names is removed (a failing rmtree is only logged) and
\* self.temp_dir is reset.
CallerCleanup(t) ==
    /\ conv[t].pc = "returned"
    /\ IF temp_dir # NoDir /\ temp_dir \in dirs
       THEN /\ \E removed \in BOOLEAN :
                 dirs' = IF removed THEN dirs \ {temp_dir} ELSE dirs
            /\ temp_dir' = NoDir
       ELSE UNCHANGED << temp_dir, dirs >>
    /\ conv' = [conv EXCEPT ![t].pc = "idle"]
    /\ UNCHANGED << nextDir, preserve_original_colors, prefWriter, config, started, parts >>

Run(t) ==
    \/ StartConversion(t)
    \/ Mkdtemp(t)
    \/ CifToObj(t)
    \/ SkipNotConfigured(t)
    \/ SkipUnavailable(t)
    \/ PixarBegin(t)
    \/ StdAnalyze(t)
    \/ PixarPackage(t)
    \/ AppleAttempt(t)
    \/ DockerAttempt(t)
    \/ AllFailed(t)
    \/ CallerCleanup(t)

\* One caller: conversions follow one another.
Next == Run("t1")

Spec == Init /\ [][Next]_vars

\* Two callers on the shared converter: their conversions interleave.
NextShared == \E t \in Threads : Run(t)

\* The service of api/routes.py: converter/usdz_converter.py and
\* converter/reliable_cif_converter.py were imported, the optional Apple and
\* Docker backends may be missing.
InitShared ==
    /\ Init
    /\ "pixar_usd" \in usdz_converters
    /\ cif_converters = {"reliable"}

SpecShared == InitShared /\ [][NextShared]_vars

\* ------------------------------------------------------------------------
\* ReliableCIFConverter
\* ------------------------------------------------------------------------

\* The largest number of convert_cif_to_obj calls on one converter.
MaxCalls == 2

\* default_order of _get_converter_order.
default_order == << "pymatgen", "ase", "builtin" >>

ParserNames == {"pymatgen", "ase", "builtin"}

\* Values of preferred_converter: None, a backend, or another string.
PreferredValues == {"none", "pymatgen", "ase", "builtin", "other"}

\* What a backend meets on an input.  PymatgenConverter.read_cif logs and
\* re-raises, its convert_to_obj catches everything and answers False;
\* ASEConverter.read_cif catches everything and answers None, on which
\* convert_to_obj fails and answers False; the builtin parser answers
\* False, raises, or its generator answers False.
PymatgenEnv == {"read_raises", "write_fails", "ok"}
AseEnv      == {"read_fails", "write_fails", "ok"}
BuiltinEnv  == {"parse_false", "raises", "generate_false", "ok"}

ParserEnv(name) ==
    CASE name = "pymatgen" -> PymatgenEnv
      [] name = "ase"      -> AseEnv
      [] name = "builtin"  -> BuiltinEnv

\* _try_pymatgen
TryPymatgen(env) ==
    CASE env = "read_raises" -> "raise"
      [] env = "write_fails" -> "false"
      [] env = "ok"          -> "ok"

\* _try_ase
TryAse(env) ==
    CASE env = "read_fails"  -> "false"
      [] env = "write_fails" -> "false"
      [] env = "ok"          -> "ok"

\* _try_builtin
TryBuiltin(env) ==
    CASE env = "parse_false"    -> "false"
      [] env = "raises"         -> "raise"
      [] env = "generate_false" -> "false"
      [] env = "ok"             -> "ok"

\* _try_converter
TryConverter(name, env) ==
    CASE name = "pymatgen" -> TryPymatgen(env)
      [] name = "ase"      -> TryAse(env)
      [] name = "builtin"  -> TryBuiltin(env)

\* An order that keeps the preferred backend at its default place as well.
GetConverterOrderKeepPreferred(preferred, converters) ==
    LET In(c) == c \in converters
    IN  IF preferred # "none" /\ preferred \in converters
        THEN << preferred >> \o SelectSeq(default_order, In)
        ELSE SelectSeq(default_order, In)

\* _get_converter_order
GetConverterOrder(preferred, converters) ==
    LET Others(c) == c # preferred /\ c \in converters
        In(c) == c \in converters
    IN  IF preferred # "none" /\ preferred \in converters
        THEN << preferred >> \o SelectSeq(default_order, Others)
        ELSE SelectSeq(default_order, In)

\* A loop that goes on after an exception without recording it.
AfterTryDropException(r, name, outcome) ==
    LET r1 == [r EXCEPT !.tried = Append(@, [name |-> name, outcome |-> outcome])]
    IN  IF outcome = "ok"
        THEN [r1 EXCEPT !.pc = "returned",
                        !.result.success = TRUE,
                        !.result.converter_used = name,
                        !.result.warnings =
                            IF name \in {"pymatgen", "ase"}
                            THEN @ \o << "blender_tip", "material_tip" >>
                            ELSE @]
        ELSE [r1 EXCEPT !.pos = @ + 1]

\* One turn of the loop of convert_cif_to_obj after _try_converter: success
\* fills the result and returns it; an exception is caught and its message
\* appended to result['warnings']; a False answer just goes on.
AfterTry(r, name, outcome) ==
    LET r1 == [r EXCEPT !.tried = Append(@, [name |-> name, outcome |-> outcome])]
    IN  CASE outcome = "ok" ->
               [r1 EXCEPT !.pc = "returned",
                          !.result.success = TRUE,
                          !.result.converter_used = name,
                          !.result.warnings =
                              IF name \in {"pymatgen", "ase"}
                              THEN @ \o << "blender_tip", "material_tip" >>
                              ELSE @]
          [] outcome = "raise" ->
               [r1 EXCEPT !.pos = @ + 1,
                          !.result.warnings = Append(@, name)]
          [] outcome = "false" ->
               [r1 EXCEPT !.pos = @ + 1]

\* ReliableCIFConverter.__init__: the backends whose import and constructor
\* worked are loaded; with none of them the constructor raises.
RcInit ==
    /\ rc.pc = "unbuilt"
    /\ \E loaded \in SUBSET ParserNames :
         rc' = [rc EXCEPT !.converters = loaded,
                          !.pc = IF loaded = {} THEN "init_failed" ELSE "ready"]
    /\ UNCHANGED << orch, ms, bd, mb, om >>

\* convert_cif_to_obj is entered: a fresh result, the early return for a
\* missing CIF file, otherwise the order of this call.
RcCall ==
    /\ rc.pc \in {"ready", "returned"}
    /\ rc.calls < MaxCalls
    /\ \E preferred \in PreferredValues, cifExists \in BOOLEAN :
         LET r == [rc EXCEPT !.calls = @ + 1,
                             !.preferred = preferred,
                             !.order = << >>,
                             !.pos = 1,
                             !.tried = << >>,
                             !.seen = IF rc.order # << >>
                                      THEN Append(@, [preferred |-> rc.preferred,
                                                      order |-> rc.order])
                                      ELSE @,
                             !.result = NoRcResult]
         IN  rc' = IF ~cifExists
                   THEN [r EXCEPT !.pc = "returned", !.result.error = "cif_missing"]
                   ELSE [r EXCEPT !.pc = "loop",
                                  !.order = GetConverterOrder(preferred, rc.converters)]
    /\ UNCHANGED << orch, ms, bd, mb, om >>

\* One turn of the loop: a name that is not loaded is passed over,
\* otherwise the backend is tried on the input.
RcTry ==
    /\ rc.pc = "loop"
    /\ rc.pos <= Len(rc.order)
    /\ LET name == rc.order[rc.pos]
       IN  IF name \notin rc.converters
           THEN rc' = [rc EXCEPT !.pos = @ + 1]
           ELSE \E env \in ParserEnv(name) :
                    rc' = AfterTry(rc, name, TryConverter(name, env))
    /\ UNCHANGED << orch, ms, bd, mb, om >>

\* The loop is over and no backend succeeded.
RcAllFailed ==
    /\ rc.pc = "loop"
    /\ rc.pos > Len(rc.order)
    /\ rc' = [rc EXCEPT !.pc = "returned", !.result.error = "all_failed"]
    /\ UNCHANGED << orch, ms, bd, mb, om >>

NextCif ==
    \/ RcInit
    \/ RcCall
    \/ RcTry
    \/ RcAllFailed

\* A ReliableCIFConverter used on its own, no conversion of the
\* orchestrator under way.
InitCif ==
    /\ Init
    /\ usdz_converters = {}
    /\ cif_converters = {}

SpecCif == InitCif /\ [][NextCif]_vars

\* ------------------------------------------------------------------------
\* MaterialStandardizer
\* ------------------------------------------------------------------------

\* Colours are triples of thousandths: the MTL writers of the parsing
\* backends print three decimals, and the six decimals _rewrite_mtl_file
\* prints hold them exactly.
STANDARD_CPK_COLORS ==
    << << "H", 1000, 1000, 1000 >>, << "He", 850, 1000, 1000 >>, << "Li", 800, 500, 1000 >>,
       << "Be", 760, 1000, 0 >>, << "B", 1000, 710, 710 >>, << "C", 565, 565, 565 >>,
       << "N", 190, 310, 970 >>, << "O", 1000, 50, 50 >>, << "F", 560, 880, 310 >>,
       << "Ne", 700, 890, 960 >>, << "Na", 670, 360, 950 >>, << "Mg", 540, 1000, 0 >>,
       << "Al", 750, 650, 650 >>, << "Si", 940, 780, 630 >>, << "P", 1000, 500, 0 >>,
       << "S", 1000, 1000, 190 >>, << "Cl", 0, 1000, 0 >>, << "Ar", 500, 820, 890 >>,
       << "K", 560, 250, 830 >>, << "Ca", 240, 1000, 0 >>, << "Sc", 900, 900, 900 >>,
       << "Ti", 750, 760, 780 >>, << "V", 650, 650, 670 >>, << "Cr", 540, 600, 780 >>,
       << "Mn", 610, 480, 780 >>, << "Fe", 880, 400, 200 >>, << "Co", 940, 560, 630 >>,
       << "Ni", 310, 820, 310 >>, << "Cu", 780, 500, 200 >>, << "Zn", 490, 500, 690 >>,
       << "Ga", 760, 560, 560 >>, << "Ge", 400, 560, 560 >>, << "As", 740, 500, 890 >>,
       << "Se", 1000, 630, 0 >>, << "Br", 650, 160, 160 >>, << "Kr", 360, 720, 820 >>,
       << "Rb", 440, 180, 690 >>, << "Sr", 0, 1000, 150 >>, << "Y", 580, 1000, 1000 >>,
       << "Zr", 580, 880, 880 >>, << "Nb", 450, 760, 790 >>, << "Mo", 330, 710, 710 >>,
       << "Tc", 230, 620, 620 >>, << "Ru", 140, 560, 560 >>, << "Rh", 40, 490, 550 >>,
       << "Pd", 0, 410, 520 >>, << "Ag", 750, 750, 750 >>, << "Cd", 1000, 850, 560 >>,
       << "In", 650, 460, 450 >>, << "Sn", 400, 500, 500 >>, << "Sb", 620, 390, 710 >>,
       << "Te", 830, 480, 0 >>, << "I", 580, 0, 580 >>, << "Xe", 260, 620, 690 >>,
       << "Cs", 340, 90, 560 >>, << "Ba", 0, 790, 0 >>, << "La", 440, 830, 1000 >>,
       << "Ce", 1000, 1000, 780 >>, << "Pr", 850, 1000, 780 >>, << "Nd", 780, 1000, 780 >>,
       << "Pm", 640, 1000, 780 >>, << "Sm", 560, 1000, 780 >>, << "Eu", 380, 1000, 780 >>,
       << "Gd", 270, 1000, 780 >>, << "Tb", 190, 1000, 780 >>, << "Dy", 120, 1000, 780 >>,
       << "Ho", 0, 1000, 610 >>, << "Er", 0, 900, 460 >>, << "Tm", 0, 830, 320 >>,
       << "Yb", 0, 750, 220 >>, << "Lu", 0, 670, 140 >>, << "Hf", 300, 760, 1000 >>,
       << "Ta", 300, 650, 1000 >>, << "W", 130, 580, 840 >>, << "Re", 150, 490, 670 >>,
       << "Os", 150, 400, 590 >>, << "Ir", 90, 330, 530 >>, << "Pt", 810, 820, 880 >>,
       << "Au", 1000, 820, 140 >>, << "Hg", 720, 720, 820 >>, << "Tl", 650, 330, 300 >>,
       << "Pb", 340, 350, 380 >>, << "Bi", 620, 310, 710 >>, << "Po", 670, 360, 0 >>,
       << "At", 460, 310, 270 >>, << "Rn", 260, 510, 590 >>, << "Fr", 260, 0, 400 >>,
       << "Ra", 0, 490, 0 >>, << "Ac", 440, 670, 980 >>, << "Th", 0, 730, 1000 >>,
       << "Pa", 0, 630, 1000 >>, << "U", 0, 560, 1000 >>, << "Np", 0, 500, 1000 >>,
       << "Pu", 0, 420, 1000 >>, << "Am", 330, 360, 950 >>, << "Cm", 470, 360, 890 >>,
       << "Bk", 540, 310, 890 >>, << "Cf", 630, 210, 830 >>, << "Es", 700, 120, 830 >>,
       << "Fm", 700, 120, 730 >>, << "Md", 700, 50, 650 >>, << "No", 740, 50, 530 >>,
       << "Lr", 780, 0, 400 >> >>

\* self.color_tolerance, in thousandths.
color_tolerance == 50

\* The colour get_standard_color falls back to.
DefaultColor == << 500, 500, 500 >>

\* Python's None for an element that could not be inferred.
None == ""

ElementSymbols == {STANDARD_CPK_COLORS[i][1] : i \in 1..Len(STANDARD_CPK_COLORS)}

\* Characters of a string.
Ch(s, i) == SubSeq(s, i, i)

UpperLetters == "ABCDEFGHIJKLMNOPQRSTUVWXYZ"
LowerLetters == "abcdefghijklmnopqrstuvwxyz"
DigitChars   == "0123456789"
HexUpper     == "0123456789ABCDEF"
HexLower     == "0123456789abcdef"

CharsOf(s) == {Ch(s, i) : i \in 1..Len(s)}

IsUpper(c) == c \in CharsOf(UpperLetters)
IsLower(c) == c \in CharsOf(LowerLetters)
IsDigit(c) == c \in CharsOf(DigitChars)
IsHex(c)   == c \in CharsOf(HexUpper) \cup CharsOf(HexLower)

\* The position of character c in s (0 when it is not there).
IndexOf(c, s) ==
    IF c \in CharsOf(s) THEN CHOOSE i \in 1..Len(s) : Ch(s, i) = c ELSE 0

\* str.upper and str.lower on one character.
ToUpper(c) == IF IsLower(c) THEN Ch(UpperLetters, IndexOf(c, LowerLetters)) ELSE c
ToLower(c) == IF IsUpper(c) THEN Ch(LowerLetters, IndexOf(c, UpperLetters)) ELSE c

\* int(c, 16)
HexValue(c) ==
    IF c \in CharsOf(HexUpper) THEN IndexOf(c, HexUpper) - 1
    ELSE IndexOf(c, HexLower) - 1

\* s.replace(pat, ''): every occurrence of pat, left to right.
RECURSIVE Removed(_, _)
Removed(s, pat) ==
    IF Len(s) < Len(pat) THEN s
    ELSE IF SubSeq(s, 1, Len(pat)) = pat
         THEN Removed(SubSeq(s, Len(pat) + 1, Len(s)), pat)
         ELSE Ch(s, 1) \o Removed(SubSeq(s, 2, Len(s)), pat)

\* s matches \d*[+-]*$
DigitsThenCharges(s) ==
    \E k \in 0..Len(s) :
        /\ \A i \in 1..k : IsDigit(Ch(s, i))
        /\ \A i \in (k + 1)..Len(s) : Ch(s, i) \in {"+", "-"}

\* An extraction that leaves the _MAT suffix on the name.
ExtractElementKeepSuffix(material_name) ==
    LET name    == Removed(material_name, "atom_")
        n       == Len(name)
        symLen  == IF n >= 2 /\ IsLower(Ch(name, 2)) THEN 2 ELSE 1
        element == SubSeq(name, 1, symLen)
    IN  IF /\ n >= 1
           /\ IsUpper(Ch(name, 1))
           /\ DigitsThenCharges(SubSeq(name, symLen + 1, n))
           /\ element \in ElementSymbols
        THEN element
        ELSE None

\* _extract_element_from_name: the prefix atom_ and the suffix _MAT are
\* removed and the rest is matched against ^([A-Z][a-z]?)\d*[+-]*$.
ExtractElementFromName(material_name) ==
    LET name    == Removed(Removed(material_name, "atom_"), "_MAT")
        n       == Len(name)
        symLen  == IF n >= 2 /\ IsLower(Ch(name, 2)) THEN 2 ELSE 1
        element == SubSeq(name, 1, symLen)
    IN  IF /\ n >= 1
           /\ IsUpper(Ch(name, 1))
           /\ DigitsThenCharges(SubSeq(name, symLen + 1, n))
           /\ element \in ElementSymbols
        THEN element
        ELSE None

\* Colours are compared in units of 1/51000, which hold both a colour of
\* thousandths and a byte divided by 255 exactly.
Fine(color) == << color[1] * 51, color[2] * 51, color[3] * 51 >>

Abs(x) == IF x < 0 THEN -x ELSE x

\* distance < self.color_tolerance, and the square of the distance.
WithinTolerance(a, b) ==
    /\ \A k \in 1..3 : Abs(a[k] - b[k]) < color_tolerance * 51
    /\ (a[1] - b[1]) * (a[1] - b[1]) + (a[2] - b[2]) * (a[2] - b[2])
         + (a[3] - b[3]) * (a[3] - b[3])
       < (color_tolerance * 51) * (color_tolerance * 51)

Distance2(a, b) ==
    (a[1] - b[1]) * (a[1] - b[1]) + (a[2] - b[2]) * (a[2] - b[2])
      + (a[3] - b[3]) * (a[3] - b[3])

\* The canonical colour of entry i of the table, in units of 1/51000.
StandardFine(i) ==
    Fine(<< STANDARD_CPK_COLORS[i][2], STANDARD_CPK_COLORS[i][3],
            STANDARD_CPK_COLORS[i][4] >>)

\* _match_element_by_color, on a colour in units of 1/51000: the loop
\* keeps the entry of least distance among those within the tolerance,
\* the earlier one of two at the same distance.
MatchElementByColor(fine) ==
    LET within == {i \in 1..Len(STANDARD_CPK_COLORS) :
                      WithinTolerance(fine, StandardFine(i))}
    IN  IF within = {} THEN None
        ELSE LET best == CHOOSE i \in within :
                            \A j \in within :
                               \/ Distance2(fine, StandardFine(i))
                                    < Distance2(fine, StandardFine(j))
                               \/ /\ Distance2(fine, StandardFine(i))
                                       = Distance2(fine, StandardFine(j))
                                  /\ i <= j
             IN  STANDARD_CPK_COLORS[best][1]

\* _infer_from_hex_name: ^x?([0-9A-Fa-f]{6})$, each byte divided by 255.
InferFromHexName(material_name) ==
    LET n   == Len(material_name)
        hex == IF n = 7 /\ Ch(material_name, 1) = "x"
               THEN SubSeq(material_name, 2, 7)
               ELSE material_name
        Byte(i) == 16 * HexValue(Ch(hex, i)) + HexValue(Ch(hex, i + 1))
    IN  IF Len(hex) = 6 /\ \A i \in 1..6 : IsHex(Ch(hex, i))
        THEN MatchElementByColor(<< Byte(1) * 200, Byte(3) * 200, Byte(5) * 200 >>)
        ELSE None

\* An inference that asks the colour before the name.
InferElementColourFirst(material_name, color) ==
    LET byName  == ExtractElementFromName(material_name)
        byColor == MatchElementByColor(Fine(color))
        byHex   == InferFromHexName(material_name)
    IN  IF byColor # None THEN [element |-> byColor, tier |-> "colour"]
        ELSE IF byName # None THEN [element |-> byName, tier |-> "name"]
        ELSE IF byHex # None THEN [element |-> byHex, tier |-> "hex"]
        ELSE [element |-> None, tier |-> "none"]

\* _infer_element_from_material, with the method that answered.
InferElementFromMaterial(material_name, color) ==
    LET byName  == ExtractElementFromName(material_name)
        byColor == MatchElementByColor(Fine(color))
        byHex   == InferFromHexName(material_name)
    IN  IF byName # None THEN [element |-> byName, tier |-> "name"]
        ELSE IF byColor # None THEN [element |-> byColor, tier |-> "colour"]
        ELSE IF byHex # None THEN [element |-> byHex, tier |-> "hex"]
        ELSE [element |-> None, tier |-> "none"]

\* _clean_element_symbol: digits, signs and blanks are removed, the first
\* letter is made upper case and the others lower case.
RECURSIVE Stripped(_)
Stripped(s) ==
    IF s = "" THEN ""
    ELSE IF IsDigit(Ch(s, 1)) \/ Ch(s, 1) \in {"+", "-", " "}
         THEN Stripped(SubSeq(s, 2, Len(s)))
         ELSE Ch(s, 1) \o Stripped(SubSeq(s, 2, Len(s)))

RECURSIVE Lowered(_)
Lowered(s) ==
    IF s = "" THEN "" ELSE ToLower(Ch(s, 1)) \o Lowered(SubSeq(s, 2, Len(s)))

CleanElementSymbol(element) ==
    LET clean == Stripped(element)
    IN  IF clean = "" THEN ""
        ELSE ToUpper(Ch(clean, 1)) \o Lowered(SubSeq(clean, 2, Len(clean)))

\* get_standard_material_name
GetStandardMaterialName(element) == CleanElementSymbol(element) \o "_MAT"

\* get_standard_color
GetStandardColor(element) ==
    LET clean == CleanElementSymbol(element)
    IN  IF clean \in ElementSymbols
        THEN LET i == CHOOSE j \in 1..Len(STANDARD_CPK_COLORS) :
                          STANDARD_CPK_COLORS[j][1] = clean
             IN  << STANDARD_CPK_COLORS[i][2], STANDARD_CPK_COLORS[i][3],
                    STANDARD_CPK_COLORS[i][4] >>
        ELSE DefaultColor


\* The largest number of materials of an MTL file, and of calls on it.
MaxMaterials == 2
MaxPasses == 2

\* Material names and colours the MTL files are drawn from: the names the
\* parsing backends write (element, atom_element, bond), a charged name and
\* a Jmol hex name; the canonical colours of carbon and sodium and the
\* carbon colour of the backends, which is no canonical colour.
InputNames == {"C", "atom_Na", "O2-", "bond", "x909090"}
InputColors == {<< 565, 565, 565 >>, << 200, 200, 200 >>, << 670, 360, 950 >>}

InputEntries == [name : InputNames, kd : InputColors]

\* MTL files of at most MaxMaterials materials, each name defined once.
InputMtls ==
    UNION {{f \in [1..n -> InputEntries] :
               \A i, j \in 1..n : f[i].name = f[j].name => i = j}
           : n \in 0..MaxMaterials}

\* materials[current_material] = color on a dictionary kept as the
\* sequence of its items: a known key keeps its place and takes the value.
DictPut(items, name, kd) ==
    IF \E i \in 1..Len(items) : items[i].name = name
    THEN [i \in 1..Len(items) |->
            IF items[i].name = name THEN [name |-> name, kd |-> kd] ELSE items[i]]
    ELSE Append(items, [name |-> name, kd |-> kd])

\* _parse_mtl_file
RECURSIVE ParseMtlFrom(_, _, _)
ParseMtlFrom(mtl, i, items) ==
    IF i > Len(mtl) THEN items
    ELSE ParseMtlFrom(mtl, i + 1, DictPut(items, mtl[i].name, mtl[i].kd))

ParseMtlFile(mtl) == ParseMtlFrom(mtl, 1, << >>)

\* What _analyze_materials infers for each material of the MTL file.
InferAll(mtl) ==
    LET mtl_materials == ParseMtlFile(mtl)
    IN  [i \in 1..Len(mtl_materials) |->
           LET inf == InferElementFromMaterial(mtl_materials[i].name,
                                               mtl_materials[i].kd)
           IN  [old_name |-> mtl_materials[i].name,
                color    |-> mtl_materials[i].kd,
                element  |-> inf.element,
                tier     |-> inf.tier]]

\* _analyze_materials: the items of material_mapping, one for each material
\* whose element was inferred; preserve is self.preserve_original_colors.
MappingItem(m, preserve) ==
    [old_name |-> m.old_name,
     new_name |-> GetStandardMaterialName(m.element),
     element  |-> m.element,
     color    |-> IF preserve THEN m.color ELSE GetStandardColor(m.element)]

AnalyzeMaterials(inferred, preserve) ==
    LET Inferred(m) == m.element # None
        Item(m) == MappingItem(m, preserve)
    IN  [i \in 1..Len(SelectSeq(inferred, Inferred)) |->
            Item(SelectSeq(inferred, Inferred)[i])]

\* _update_obj_file
UpdateObjFile(obj, material_mapping) ==
    [k \in 1..Len(obj) |->
        IF \E i \in 1..Len(material_mapping) : material_mapping[i].old_name = obj[k]
        THEN material_mapping[CHOOSE i \in 1..Len(material_mapping) :
                                 material_mapping[i].old_name = obj[k]].new_name
        ELSE obj[k]]

\* _rewrite_mtl_file: the file is opened for writing and one entry is
\* written for each item of material_mapping.
RewriteMtlFile(mtl, material_mapping) ==
    [i \in 1..Len(material_mapping) |->
        [name |-> material_mapping[i].new_name, kd |-> material_mapping[i].color]]

\* standardize_obj_materials once material_mapping is known: what it
\* returns and what it leaves on disk.  io says whether updating the OBJ
\* file or rewriting the MTL file raises.
StandardizeMapped(material_mapping, mtl, obj, io) ==
    IF material_mapping = << >>
    THEN [ok |-> TRUE, mtl |-> mtl, obj |-> obj]
    ELSE CASE io = "obj_fails" -> [ok |-> FALSE, mtl |-> mtl, obj |-> obj]
           [] io = "mtl_fails" ->
                [ok |-> FALSE, mtl |-> mtl,
                 obj |-> UpdateObjFile(obj, material_mapping)]
           [] io = "ok" ->
                [ok |-> TRUE, mtl |-> RewriteMtlFile(mtl, material_mapping),
                 obj |-> UpdateObjFile(obj, material_mapping)]

\* standardize_obj_materials on the files (mtl, obj); inferred is what
\* _analyze_materials infers for the materials of mtl.
StandardizeObjMaterials(inferred, mtl, obj, preserve_colors, io) ==
    StandardizeMapped(AnalyzeMaterials(inferred, preserve_colors), mtl, obj, io)

\* A parsing backend has written an OBJ/MTL pair: one usemtl line for each
\* material of the MTL file.
MsLoad ==
    /\ ms.pc = "empty"
    /\ \E mtl \in InputMtls, preserve \in BOOLEAN :
         ms' = [IdleMs EXCEPT !.pc = "loaded",
                              !.mtl = mtl,
                              !.obj = [i \in 1..Len(mtl) |-> mtl[i].name],
                              !.preserve = preserve]
    /\ UNCHANGED << orch, rc, bd, mb, om >>

\* The pair after a call that inferred log and answered r.
AfterStandardize(m, log, r) ==
    [m EXCEPT !.pc = "done",
              !.passes = @ + 1,
              !.okRun = IF r.ok THEN @ + 1 ELSE 0,
              !.ok = r.ok,
              !.prevMtl = m.mtl,
              !.prevObj = m.obj,
              !.mtl = r.mtl,
              !.obj = r.obj,
              !.log = log]

StandardizeCall(m, inferred, io) ==
    AfterStandardize(m, inferred,
        StandardizeObjMaterials(inferred, m.mtl, m.obj, m.preserve, io))

\* One call of standardize_obj_materials on the pair.  The singleton's
\* preserve_original_colors is set to the argument for the call and put
\* back by the finally clause.
MsStandardize ==
    /\ ms.pc \in {"loaded", "done"}
    /\ ms.passes < MaxPasses
    /\ \E io \in {"ok", "obj_fails", "mtl_fails"} :
         ms' = StandardizeCall(ms, InferAll(ms.mtl), io)
    /\ UNCHANGED << orch, rc, bd, mb, om >>

NextStd ==
    \/ MsLoad
    \/ MsStandardize

\* The standardizer used on one OBJ/MTL pair, no conversion under way.
InitStd ==
    /\ Init
    /\ usdz_converters = {}
    /\ cif_converters = {}

SpecStd == InitStd /\ [][NextStd]_vars

\* ------------------------------------------------------------------------
\* get_bonds of PymatgenConverter and of ASEConverter
\* ------------------------------------------------------------------------

MaxSites == 2
MaxNeighbors == 2

BondBackends == {"pymatgen", "ase"}

\* Values of neighbor['weight'].
Weights == {"near", "far"}

\* Lists of at most MaxNeighbors elements of S.
ListsOf(S) == UNION {[1..k -> S] : k \in 0..MaxNeighbors}

\* What nn.get_nn_info(structure, i) can return for a structure of n sites:
\* one entry per neighbouring site, periodic images included, so that one
\* site_index can occur in several entries.
NnInfo(n) == ListsOf([site_index : 0..(n - 1), weight : Weights])

\* What nl.get_neighbors(i) can return as indices: one index per
\* neighbour, one per periodic offset.
NeighborIndices(n) == ListsOf(0..(n - 1))

\* The inner loop of PymatgenConverter.get_bonds for site i: a tuple
\* (i, j, distance) is appended for every entry with i < j.
PymatgenBonds(i, neighbors) ==
    LET Later(neighbor) == i < neighbor.site_index
        kept == SelectSeq(neighbors, Later)
    IN  [k \in 1..Len(kept) |-> << i, kept[k].site_index, kept[k].weight >>]

\* The inner loop of ASEConverter.get_bonds for atom i: a tuple (i, j) is
\* appended for every index j with i < j.
AseBonds(i, indices) ==
    LET Later(j) == i < j
        kept == SelectSeq(indices, Later)
    IN  [k \in 1..Len(kept) |-> << i, kept[k] >>]

\* get_bonds is called on a structure of n sites; bonds = [].
BdCall ==
    /\ bd.pc \in {"idle", "returned"}
    /\ \E backend \in BondBackends, n \in 0..MaxSites :
          bd' = [IdleBd EXCEPT !.pc = "loop", !.backend = backend, !.n = n]
    /\ UNCHANGED << orch, rc, ms, mb, om >>

\* One iteration of `for i, site in enumerate(structure)`: get_nn_info
\* raises, which is logged and the site skipped, or its entries are walked.
BdSitePymatgen ==
    /\ bd.pc = "loop"
    /\ bd.backend = "pymatgen"
    /\ bd.i < bd.n
    /\ \/ bd' = [bd EXCEPT !.i = bd.i + 1, !.neighbors = << >>]
       \/ \E neighbors \in NnInfo(bd.n) :
             bd' = [bd EXCEPT !.i = bd.i + 1,
                              !.neighbors = neighbors,
                              !.bonds = bd.bonds \o PymatgenBonds(bd.i, neighbors)]
    /\ UNCHANGED << orch, rc, ms, mb, om >>

\* One iteration of `for i in range(len(atoms))`.
BdSiteAse ==
    /\ bd.pc = "loop"
    /\ bd.backend = "ase"
    /\ bd.i < bd.n
    /\ \E indices \in NeighborIndices(bd.n) :
          bd' = [bd EXCEPT !.i = bd.i + 1,
                           !.neighbors = indices,
                           !.bonds = bd.bonds \o AseBonds(bd.i, indices)]
    /\ UNCHANGED << orch, rc, ms, mb, om >>

\* The outer except: CrystalNN() fails before the loop, or the cutoffs,
\* the NeighborList or one of its queries fail; [] is returned.
BdRaise ==
    /\ bd.pc = "loop"
    /\ \/ bd.backend = "pymatgen" /\ bd.i = 0
       \/ bd.backend = "ase" /\ (bd.i < bd.n \/ bd.i = 0)
    /\ bd' = [bd EXCEPT !.pc = "returned", !.bonds = << >>]
    /\ UNCHANGED << orch, rc, ms, mb, om >>

\* return bonds
BdReturn ==
    /\ bd.pc = "loop"
    /\ bd.i = bd.n
    /\ bd' = [bd EXCEPT !.pc = "returned"]
    /\ UNCHANGED << orch, rc, ms, mb, om >>

NextBonds ==
    \/ BdCall
    \/ BdSitePymatgen
    \/ BdSiteAse
    \/ BdRaise
    \/ BdReturn

\* A backend used on its own, no conversion under way.
InitBonds ==
    /\ Init
    /\ usdz_converters = {}
    /\ cif_converters = {}

SpecBonds == InitBonds /\ [][NextBonds]_vars

\* ------------------------------------------------------------------------
\* convert_to_obj of PymatgenConverter and of ASEConverter
\* ------------------------------------------------------------------------

MaxMeshAtoms == 3
MaxResolution == 2

\* Scale factors a conversion can ask for.
ScaleFactors == {-1, 0, 1}

\* The sites structures are made of: carbon at three places of the cell
\* and berkelium, an element with no entry in element_radii and none in
\* the covalent radii of ASE.  Positions are along one lattice vector, in
\* thousandths of an angstrom.
MeshSites == {[symbol |-> "C", pos |-> 0], [symbol |-> "C", pos |-> 1000],
              [symbol |-> "C", pos |-> 3000], [symbol |-> "Bk", pos |-> 0]}

\* The length of the lattice vector, in thousandths of an angstrom.
CellLength == 4000

MeshStructures == UNION {[1..n -> MeshSites] : n \in 0..MaxMeshAtoms}

\* structure[i] / atoms[i], i counted from 0 as the code does.
At(atoms, i) == atoms[i + 1]

\* self.element_radii of PymatgenConverter, in hundredths of an angstrom.
element_radii ==
    << << "H", 120 >>, << "C", 170 >>, << "N", 155 >>, << "O", 152 >>,
       << "F", 147 >>, << "Na", 227 >>, << "Mg", 173 >>, << "Al", 184 >>,
       << "Si", 210 >>, << "P", 180 >>, << "S", 180 >>, << "Cl", 175 >>,
       << "K", 275 >>, << "Ca", 231 >>, << "Fe", 200 >>, << "Cu", 140 >>,
       << "Zn", 139 >> >>

\* The value of a table for a key that has one.
TableValue(table, key) ==
    table[CHOOSE i \in 1..Len(table) : table[i][1] = key][2]

HasEntry(table, key) == \E i \in 1..Len(table) : table[i][1] = key

\* A lookup self.element_radii[element]: KeyError for an element that has
\* no entry.
ElementRadiiIndex(element) ==
    IF HasEntry(element_radii, element)
    THEN [raised |-> FALSE, value |-> TableValue(element_radii, element)]
    ELSE [raised |-> TRUE, value |-> 0]

\* self.element_radii.get(element, 1.5)
ElementRadiiGet(element) ==
    IF HasEntry(element_radii, element)
    THEN [raised |-> FALSE, value |-> TableValue(element_radii, element)]
    ELSE [raised |-> FALSE, value |-> 150]

\* ase.data.covalent_radii, in hundredths of an angstrom: the entries of
\* the elements that have a radius; every other element of the periodic
\* table holds the value the library calls missing.
covalent_radii == << << "H", 31 >>, << "C", 76 >>, << "O", 66 >> >>
missing == 20

\* covalent_radii[atomic_numbers[symbol]]
CovalentRadius(symbol) ==
    IF HasEntry(covalent_radii, symbol)
    THEN TableValue(covalent_radii, symbol)
    ELSE missing

\* cutoff_factor of ASEConverter.get_bonds, in tenths.
cutoff_factor == 12

\* The skin NeighborList adds to every cutoff, in thousandths of an
\* angstrom.
skin == 300

\* Atom j, moved by shift, is within reach of atom i: cutoffs holds one
\* cutoff per atom, and the NeighborList adds its skin to each.
Within(atoms, i, j, shift) ==
    LET cutoffs == [k \in 1..Len(atoms) |->
                      CovalentRadius(atoms[k].symbol) * cutoff_factor]
    IN  Abs(At(atoms, j).pos + shift - At(atoms, i).pos)
            < (cutoffs[i + 1] + skin) + (cutoffs[j + 1] + skin)

\* nl.get_neighbors(i) with self_interaction=False, bothways=False on a
\* periodic cell: every pair is listed on one side only, in the cell under
\* the lower index, through the cell boundary under the atom whose
\* neighbour lies in the next cell.  The offsets are not looked at by
\* get_bonds and are left out.
AseNeighbors(atoms, i) ==
    LET n == Len(atoms)
        index == [k \in 1..n |-> k - 1]
        Here(j) == j > i /\ Within(atoms, i, j, 0)
        Beyond(j) == Within(atoms, i, j, CellLength)
    IN  SelectSeq(index, Here) \o SelectSeq(index, Beyond)

\* ASEConverter.get_bonds: the loop over the atoms from atom i on.
RECURSIVE AseGetBonds(_, _)
AseGetBonds(atoms, i) ==
    IF i >= Len(atoms) THEN << >>
    ELSE AseBonds(i, AseNeighbors(atoms, i)) \o AseGetBonds(atoms, i + 1)

\* What CrystalNN answers.  get_bonds hands it no radius and no cutoff
\* factor; two of its answers are modelled: no site has a neighbour, or
\* every other site of the cell is one.

NnInfoOf(atoms, i, nn) ==
    LET index == [k \in 1..Len(atoms) |-> k - 1]
        Other(j) == j # i
        others == SelectSeq(index, Other)
    IN  IF nn = "none" THEN << >>
        ELSE [k \in 1..Len(others) |-> [site_index |-> others[k], weight |-> "near"]]

\* PymatgenConverter.get_bonds: the loop over the sites from site i on.
RECURSIVE PymatgenGetBonds(_, _, _)
PymatgenGetBonds(atoms, i, nn) ==
    IF i >= Len(atoms) THEN << >>
    ELSE PymatgenBonds(i, NnInfoOf(atoms, i, nn))
            \o PymatgenGetBonds(atoms, i + 1, nn)

\* len(vertices) of a sphere: resolution + 1 rings of 2 * resolution
\* vertices, the first ring and the last one at the poles.
SphereVertexCount(resolution) == (resolution + 1) * (2 * resolution)

\* PymatgenConverter.create_sphere: the faces, two for each (i, j), as
\* indices into vertices counted from 0.
CreateSphere(resolution) ==
    [k \in 1..(4 * resolution * resolution) |->
        LET q == (k - 1) \div 2
            i == q \div (2 * resolution)
            j == q % (2 * resolution)
            first == i * (resolution * 2) + j
            second == first + resolution * 2
        IN  IF k % 2 = 1
            THEN << first, second, first + 1 >>
            ELSE << second, second + 1, first + 1 >>]

\* ASEConverter.create_sphere_obj: the faces, counted from 1; the first
\* triangle of a quad is left out on the first ring and the second one on
\* the last ring.
CreateSphereObj(resolution) ==
    LET quad == [k \in 1..(4 * resolution * resolution) |->
                   LET q == (k - 1) \div 2
                       i == q \div (2 * resolution)
                       j == q % (2 * resolution)
                       v1 == i * (resolution * 2) + j
                       v2 == i * (resolution * 2) + ((j + 1) % (resolution * 2))
                       v3 == (i + 1) * (resolution * 2) + ((j + 1) % (resolution * 2))
                       v4 == (i + 1) * (resolution * 2) + j
                   IN  IF k % 2 = 1
                       THEN [keep |-> i > 0, face |-> << v1 + 1, v2 + 1, v4 + 1 >>]
                       ELSE [keep |-> i < resolution - 1,
                             face |-> << v2 + 1, v3 + 1, v4 + 1 >>]]
        Kept(x) == x.keep
        kept == SelectSeq(quad, Kept)
    IN  [k \in 1..Len(kept) |-> kept[k].face]

\* self.cylinder_resolution of PymatgenConverter and the bond_resolution
\* default of ASEConverter.convert_to_obj.
cylinder_resolution == 12
bond_resolution == 8

\* A cylinder built whatever its length: the division by a zero length
\* leaves vertices that are not numbers, and they are written.
CreateCylinderNoGuard(start, end, resolution) ==
    [nverts |-> 2 * resolution,
     faces  |-> [k \in 1..(2 * resolution) |->
                   LET i == (k - 1) \div 2
                       next_i == (i + 1) % resolution
                   IN  IF k % 2 = 1
                       THEN << i * 2, i * 2 + 1, next_i * 2 >>
                       ELSE << i * 2 + 1, next_i * 2 + 1, next_i * 2 >>]]

\* PymatgenConverter.create_cylinder: nothing for a bond of length 0,
\* otherwise two vertices and two faces for each step around the axis,
\* the faces as indices counted from 0.
CreateCylinder(start, end, resolution) ==
    IF start = end THEN [nverts |-> 0, faces |-> << >>]
    ELSE [nverts |-> 2 * resolution,
          faces  |-> [k \in 1..(2 * resolution) |->
                        LET i == (k - 1) \div 2
                            next_i == (i + 1) % resolution
                        IN  IF k % 2 = 1
                            THEN << i * 2, i * 2 + 1, next_i * 2 >>
                            ELSE << i * 2 + 1, next_i * 2 + 1, next_i * 2 >>]]

\* ASEConverter.create_cylinder_obj: the same, the faces counted from 1.
CreateCylinderObj(start, end, resolution) ==
    IF start = end THEN [nverts |-> 0, faces |-> << >>]
    ELSE [nverts |-> 2 * resolution,
          faces  |-> [k \in 1..(2 * resolution) |->
                        LET i == (k - 1) \div 2
                            next_i == (i + 1) % resolution
                        IN  IF k % 2 = 1
                            THEN << i * 2 + 1, i * 2 + 2, next_i * 2 + 1 >>
                            ELSE << i * 2 + 2, next_i * 2 + 2, next_i * 2 + 1 >>]]

\* The OBJ file after the spheres and cylinders of items, from item k on,
\* are written behind vertex_offset vertices, every face index moved by
\* vertex_offset and by base (1 where the faces are counted from 0).
RECURSIVE Written(_, _, _, _)
Written(items, k, vertex_offset, base) ==
    IF k > Len(items) THEN << >>
    ELSE << [kind   |-> items[k].kind,
             a      |-> items[k].a,
             b      |-> items[k].b,
             radius |-> items[k].radius,
             offset |-> vertex_offset,
             nverts |-> items[k].nverts,
             faces  |-> [f \in 1..Len(items[k].faces) |->
                           [v \in 1..3 |->
                              items[k].faces[f][v] + vertex_offset + base]]] >>
         \o Written(items, k + 1, vertex_offset + items[k].nverts, base)

\* What convert_to_obj returns and leaves in the OBJ file; vertex_offset
\* is where it stands after the last group.
Mesh(ok, bonds, groups) ==
    [success |-> ok, bonds |-> bonds, groups |-> groups,
     vertex_offset |-> IF groups = << >> THEN 0
                       ELSE groups[Len(groups)].offset
                                + groups[Len(groups)].nverts]

\* PymatgenConverter.convert_to_obj: the bonds are computed, the atoms are
\* written element by element (first is the element the set of elements
\* yields first), each with the radius of its element, then the bonds.
\* The method has no scale factor.  io says whether writing the files
\* raises.
PymatgenConvertToObj(atoms, resolution, nn, first, io) ==
    LET n == Len(atoms)
        bonds == PymatgenGetBonds(atoms, 0, nn)
        index == [k \in 1..n |-> k - 1]
        IsFirst(i) == At(atoms, i).symbol = first
        IsRest(i) == At(atoms, i).symbol # first
        order == SelectSeq(index, IsFirst) \o SelectSeq(index, IsRest)
        spheres == [k \in 1..n |->
                      [kind   |-> "atom", a |-> order[k], b |-> order[k],
                       radius |-> ElementRadiiGet(At(atoms, order[k]).symbol).value * 3,
                       nverts |-> SphereVertexCount(resolution),
                       faces  |-> CreateSphere(resolution)]]
        cylinders == [k \in 1..Len(bonds) |->
                        LET c == CreateCylinder(At(atoms, bonds[k][1]).pos,
                                                At(atoms, bonds[k][2]).pos,
                                                cylinder_resolution)
                        IN  [kind   |-> "bond", a |-> bonds[k][1], b |-> bonds[k][2],
                             radius |-> 100,
                             nverts |-> c.nverts, faces |-> c.faces]]
    IN  IF io # "ok"
           \/ \E i \in 1..n : ElementRadiiGet(atoms[i].symbol).raised
        THEN Mesh(FALSE, bonds, << >>)
        ELSE Mesh(TRUE, bonds, Written(spheres \o cylinders, 1, 0, 1))

\* ASEConverter.convert_to_obj: positions and radii are multiplied by
\* scale_factor, the atoms are written in their order, then the bonds
\* get_bonds finds in the unscaled structure.
AseConvertToObj(atoms, resolution, scale_factor, io) ==
    LET n == Len(atoms)
        bonds == AseGetBonds(atoms, 0)
        spheres == [k \in 1..n |->
                      [kind   |-> "atom", a |-> k - 1, b |-> k - 1,
                       radius |-> CovalentRadius(atoms[k].symbol) * 5 * scale_factor,
                       nverts |-> SphereVertexCount(resolution),
                       faces  |-> CreateSphereObj(resolution)]]
        cylinders == [k \in 1..Len(bonds) |->
                        LET c == CreateCylinderObj(At(atoms, bonds[k][1]).pos * scale_factor,
                                                   At(atoms, bonds[k][2]).pos * scale_factor,
                                                   bond_resolution)
                        IN  [kind   |-> "bond", a |-> bonds[k][1], b |-> bonds[k][2],
                             radius |-> 100 * scale_factor,
                             nverts |-> c.nverts, faces |-> c.faces]]
    IN  IF io # "ok"
        THEN Mesh(FALSE, << >>, << >>)
        ELSE Mesh(TRUE, bonds, Written(spheres \o cylinders, 1, 0, 0))

\* The scale factor convert_to_obj works with: _try_ase calls it without
\* one, so that the default of 1.0 applies; a caller of
\* ASEConverter.convert_cif_to_obj hands its own on.
EffectiveScale(via, scale_factor) ==
    IF via = "reliable" THEN 1 ELSE scale_factor

\* read_cif has parsed a structure; a conversion of it is asked for, by
\* ReliableCIFConverter (_try_pymatgen, _try_ase) or by a caller of the
\* backend's own convert_cif_to_obj.
MbRead ==
    /\ mb.pc = "idle"
    /\ \E backend \in BondBackends, via \in {"reliable", "direct"},
          scale_factor \in ScaleFactors, resolution \in 1..MaxResolution,
          atoms \in MeshStructures :
         mb' = [IdleMb EXCEPT !.pc = "read", !.backend = backend, !.via = via,
                              !.scale_factor = scale_factor,
                              !.resolution = resolution, !.atoms = atoms]
    /\ UNCHANGED << orch, rc, ms, bd, om >>

\* The structure after convert_to_obj answered r.
AfterConvert(m, io, r) ==
    [m EXCEPT !.pc = "done", !.io = io, !.success = r.success, !.bonds = r.bonds,
              !.groups = r.groups, !.vertex_offset = r.vertex_offset]

\* convert_to_obj of the Pymatgen backend.
MbPymatgen ==
    /\ mb.pc = "read"
    /\ mb.backend = "pymatgen"
    /\ \E nn \in {"none", "all"}, io \in {"ok", "write_fails"},
          first \in {mb.atoms[i].symbol : i \in 1..Len(mb.atoms)} \cup {"C"} :
         mb' = AfterConvert(mb, io, PymatgenConvertToObj(mb.atoms, mb.resolution,
                                                         nn, first, io))
    /\ UNCHANGED << orch, rc, ms, bd, om >>

\* convert_to_obj of the ASE backend.
MbAse ==
    /\ mb.pc = "read"
    /\ mb.backend = "ase"
    /\ \E io \in {"ok", "write_fails"} :
         mb' = AfterConvert(mb, io, AseConvertToObj(mb.atoms, mb.resolution,
                                  EffectiveScale(mb.via, mb.scale_factor), io))
    /\ UNCHANGED << orch, rc, ms, bd, om >>

NextMesh ==
    \/ MbRead
    \/ MbPymatgen
    \/ MbAse

\* A backend used on its own, no conversion under way.
SpecMesh == InitBonds /\ [][NextMesh]_vars

\* ------------------------------------------------------------------------
\* OutputManager: the sessions of the conversion requests
\* ------------------------------------------------------------------------

MaxRequests == 3
MaxSeconds == 2

\* hashlib.md5(filename.encode()).hexdigest()[:8] of the file names that
\* are uploaded.
file_hash ==
    << << "NaCl.cif", "c1c2fcbf" >>, << "diamond.cif", "20ca460b" >> >>

\* OutputManager._generate_session_id: the time, to the second, and the
\* hash of the file name.
GenerateSessionId(now, filename) ==
    << now, TableValue(file_hash, filename) >>

\* OutputManager.create_conversion_session for request k: the directory
\* is made unless it exists, and session_metadata.json is written anew.
\* created_by stands for what the metadata holds of the request (its
\* created_at and conversion_settings).
CreateConversionSession(disk, session_id, filename, k) ==
    LET session_metadata == [session_id        |-> session_id,
                             original_filename |-> filename,
                             created_by        |-> k,
                             status            |-> "created",
                             files             |-> {}]
    IN  IF \E d \in 1..Len(disk) : disk[d].id = session_id
        THEN [d \in 1..Len(disk) |->
                IF disk[d].id = session_id
                THEN [disk[d] EXCEPT !.metadata = session_metadata]
                ELSE disk[d]]
        ELSE Append(disk, [id       |-> session_id,
                           metadata |-> session_metadata,
                           original_cif |-> 0,
                           final_usdz   |-> 0])

\* OutputManager.save_file_to_session for request k: the file is copied
\* over the target of its type and _update_session_metadata merges the
\* entry of the type into "files".
SaveFileToSession(disk, session_id, file_type, k) ==
    [d \in 1..Len(disk) |->
        IF disk[d].id # session_id THEN disk[d]
        ELSE LET copied == IF file_type = "original_cif"
                           THEN [disk[d] EXCEPT !.original_cif = k]
                           ELSE [disk[d] EXCEPT !.final_usdz = k]
             IN  [copied EXCEPT !.metadata.files = @ \cup {file_type}]]

\* A second passes.
OmTick ==
    /\ om.now < MaxSeconds
    /\ om' = [om EXCEPT !.now = @ + 1]
    /\ UNCHANGED << orch, rc, ms, bd, mb >>

\* convert_cif: a request with an uploaded file creates its session.  The
\* handler does not yield before it returns, so that no other request is
\* under way.
OmCreate ==
    /\ om.pc = "idle"
    /\ Len(om.sessions) < MaxRequests
    /\ \E f \in 1..Len(file_hash) :
         LET filename == file_hash[f][1]
             session_id == GenerateSessionId(om.now, filename)
             k == Len(om.sessions) + 1
         IN  om' = [om EXCEPT
                      !.pc = "created",
                      !.sessions = Append(@, [session_id |-> session_id,
                                              filename   |-> filename]),
                      !.disk = CreateConversionSession(@, session_id, filename, k)]
    /\ UNCHANGED << orch, rc, ms, bd, mb >>

\* convert_cif: the uploaded file is saved to the session.
OmSave ==
    /\ om.pc = "created"
    /\ LET k == Len(om.sessions)
       IN  om' = [om EXCEPT
                    !.pc = "saved",
                    !.disk = SaveFileToSession(@, om.sessions[k].session_id,
                                               "original_cif", k)]
    /\ UNCHANGED << orch, rc, ms, bd, mb >>

\* convert_cif after the conversion: the USDZ file of a successful one is
\* saved, and complete_conversion_session sets the status.
OmComplete ==
    /\ om.pc = "saved"
    /\ \E success \in BOOLEAN :
         LET k == Len(om.sessions)
             session_id == om.sessions[k].session_id
             saved == IF success
                      THEN SaveFileToSession(om.disk, session_id, "final_usdz", k)
                      ELSE om.disk
         IN  om' = [om EXCEPT
                      !.pc = "idle",
                      !.disk = [d \in 1..Len(saved) |->
                                  IF saved[d].id = session_id
                                  THEN [saved[d] EXCEPT !.metadata.status =
                                          IF success THEN "completed" ELSE "failed"]
                                  ELSE saved[d]]]
    /\ UNCHANGED << orch, rc, ms, bd, mb >>

NextOut ==
    \/ OmTick
    \/ OmCreate
    \/ OmSave
    \/ OmComplete

\* The output manager on its own, no conversion under way.
SpecOut == InitBonds /\ [][NextOut]_vars

\* ------------------------------------------------------------------------
\* Properties
\* ------------------------------------------------------------------------

\* The priority order as the documentation states it.
StatedOrder == << "Pixar USD", "Apple USD", "Docker USD" >>

StatedPos(key) ==
    CASE key = "pixar_usd"  -> 1
      [] key = "apple_usd"  -> 2
      [] key = "docker_usd" -> 3

StatedKeys == << "pixar_usd", "apple_usd", "docker_usd" >>

IsConfigured(key) == key \in usdz_converters

\* The configured backends, in priority order.
ConfiguredOrder == SelectSeq(StatedKeys, IsConfigured)

CalledKeys(c) == {c.calls[j].key : j \in 1..Len(c.calls)}

Running(c) == c.pc \in {"cif", "pkg", "std", "pixar_pkg"}

\* C1: the backends are attempted strictly in the order Pixar USD, Apple
\* USD, Docker USD: the i-th recorded attempt is that of the i-th backend,
\* and when a backend's method is called every earlier backend already has
\* a recorded attempt, none of them a successful one.
C1_PriorityOrder ==
    \A t \in Threads :
        LET c == conv[t]
        IN  /\ Len(c.attempts) <= Len(StatedOrder)
            /\ \A i \in 1..Len(c.attempts) : c.attempts[i].converter = StatedOrder[i]
            /\ \A j \in 1..Len(c.calls) :
                 /\ c.calls[j].recorded = StatedPos(c.calls[j].key) - 1
                 /\ c.calls[j].recorded <= Len(c.attempts)
                 /\ \A i \in 1..c.calls[j].recorded : ~c.attempts[i].success

\* C1 witness: all three backends were called, Docker USD last, after the
\* recorded failures of the two before it.
C1_Witness ==
    \E t \in Threads :
        /\ Len(conv[t].calls) = 3
        /\ conv[t].calls[3].key = "docker_usd"
        /\ conv[t].calls[3].recorded = 2

\* C2: when the first configured backend fails and the second configured
\* backend is capable of producing the output, _convert_obj_to_usdz returns
\* success through the second backend, with the first attempt marked failed
\* and the second marked successful.
C2_FallbackSucceeds ==
    \A t \in Threads :
        LET c == conv[t]
            cfg == ConfiguredOrder
        IN  ( /\ c.usdz.returned
              /\ Len(cfg) >= 2
              /\ Len(c.attempts) >= StatedPos(cfg[1])
              /\ ~c.attempts[StatedPos(cfg[1])].success
              /\ cfg[2] \in c.capable )
            => /\ c.usdz.success
               /\ c.usdz.converter = cfg[2]
               /\ Len(c.attempts) = StatedPos(cfg[2])
               /\ c.attempts[StatedPos(cfg[2])].success

\* C3: a backend is declared the winner only if the output file exists with
\* non-zero size, and the winner's attempt is the last one made.
C3_WinnerHasNonEmptyOutput ==
    \A t \in Threads :
        LET c == conv[t]
        IN  (c.usdz.returned /\ c.usdz.success)
            => /\ c.output = "nonempty"
               /\ Len(c.attempts) = StatedPos(c.usdz.converter)
               /\ c.calls[Len(c.calls)].key = c.usdz.converter

\* C4: once convert_cif_to_usdz has returned, the scratch directory it
\* created no longer exists, and when no conversion is running no scratch
\* directory of an earlier conversion is left.
C4_ScratchRemovedOnReturn ==
    /\ \A t \in Threads :
         (conv[t].pc = "returned" /\ conv[t].myDir # NoDir)
         => conv[t].myDir \notin dirs
    /\ (\A t \in Threads : conv[t].pc \in {"idle", "returned"}) => dirs = {}

\* C5: a running conversion owns its scratch directory and its settings:
\* the directory still exists, self.temp_dir points to it when the OBJ path
\* is built, the OBJ was written into it, and the standardizer setting it
\* read was not written by another conversion.
C5_ExclusiveOwnership ==
    \A t \in Threads :
        LET c == conv[t]
        IN  /\ (Running(c) /\ c.myDir # NoDir) => c.myDir \in dirs
            /\ c.pc = "cif" => temp_dir = c.myDir
            /\ c.objDir # NoDir => c.objDir = c.myDir
            /\ c.readFrom \in {"none", t}

\* C6: _convert_obj_to_usdz returns failure only when every backend of the
\* priority list has a recorded attempt, each of them either a call of the
\* backend or a record that it is not configured or unavailable.
C6_FailureOnlyAfterAll ==
    \A t \in Threads :
        LET c == conv[t]
        IN  (c.usdz.returned /\ ~c.usdz.success)
            => /\ Len(c.attempts) = Len(StatedOrder)
               /\ \A i \in 1..Len(StatedOrder) :
                    /\ c.attempts[i].converter = StatedOrder[i]
                    /\ \/ StatedKeys[i] \in CalledKeys(c)
                       \/ c.attempts[i].error_type \in {"not_configured", "unavailable"}

\* C6 witness: a failure returned after the first backend failed and the
\* other two were still called.
C6_Witness ==
    \E t \in Threads :
        /\ conv[t].usdz.returned
        /\ ~conv[t].usdz.success
        /\ conv[t].cause["pixar_usd"] = "failed"
        /\ CalledKeys(conv[t]) = BackendKeys

\* The failure reason each backend gives for what happened in its call.
StatedReason(key, why) ==
    CASE key = "pixar_usd" /\ why = "obj_missing"        -> "pixar_obj_missing"
      [] key = "pixar_usd" /\ why \in {"no_geometry", "failed"} -> "pixar_failed"
      [] key = "apple_usd" /\ why = "timeout"            -> "apple_timeout"
      [] key = "apple_usd" /\ why \in {"nonzero", "exit0_nofile"} -> "apple_failed"
      [] key = "docker_usd" /\ why = "call_error"        -> "TypeError"
      [] OTHER                                           -> "no_failure"

\* C7: when every backend is exhausted the returned failure has one entry
\* per backend of the priority list, each marked failed with that backend's
\* failure reason (or the record that it was skipped), and the message
\* names every backend.
C7_AggregateFailure ==
    \A t \in Threads :
        LET c == conv[t]
        IN  (c.usdz.returned /\ ~c.usdz.success)
            => /\ Len(c.attempts) = Len(StatedOrder)
               /\ c.usdz.failed = StatedOrder
               /\ \A i \in 1..Len(StatedOrder) :
                    /\ c.attempts[i].converter = StatedOrder[i]
                    /\ ~c.attempts[i].success
                    /\ IF StatedKeys[i] \in CalledKeys(c)
                       THEN c.attempts[i].message =
                              StatedReason(StatedKeys[i], c.cause[StatedKeys[i]])
                       ELSE c.attempts[i].message \in {"not_configured", "unavailable"}

\* C7 witness: all three backends were called and failed, each for its own
\* reason, and the aggregate failure was returned.
C7_Witness ==
    \E t \in Threads :
        /\ conv[t].usdz.returned
        /\ ~conv[t].usdz.success
        /\ CalledKeys(conv[t]) = BackendKeys
        /\ conv[t].cause["apple_usd"] = "nonzero"
        /\ conv[t].attempts[2].message = "apple_failed"

\* C8: a backend whose external process timed out is recorded as failed
\* with the timeout reason, which no other outcome is recorded with; the
\* next configured backend is then called; no backend method is called
\* twice in a conversion.  The Docker method called on its own reports a
\* timeout as a failure with a reason of its own as well.
C8_TimeoutThenNext ==
    /\ \A t \in Threads :
         LET c == conv[t]
         IN  /\ \A i \in 1..Len(c.attempts) :
                  LET k == StatedKeys[i]
                  IN  /\ c.cause[k] = "timeout"
                         => /\ ~c.attempts[i].success
                            /\ c.attempts[i].message = "apple_timeout"
                      /\ c.cause[k] # "timeout"
                         => c.attempts[i].message # "apple_timeout"
             /\ ( /\ c.cause["apple_usd"] = "timeout"
                  /\ "docker_usd" \in usdz_converters
                  /\ (c.idx > 3 \/ c.usdz.returned) )
                => "docker_usd" \in CalledKeys(c)
             /\ \A i, j \in 1..Len(c.calls) : c.calls[i].key = c.calls[j].key => i = j
    /\ \A env \in DockerEnv, out \in {"absent", "empty", "nonempty"} :
         LET r == DockerConvertObjToUsdz(DockerMethodParams, env, TRUE, out).res
         IN  /\ env = "timeout" => ~r.success
             /\ (env = "timeout") <=> (r.message = "docker_timeout")

\* C8 witness: the Apple backend timed out and the Docker backend was
\* called after it.
C8_Witness ==
    \E t \in Threads :
        /\ conv[t].cause["apple_usd"] = "timeout"
        /\ conv[t].attempts[2].message = "apple_timeout"
        /\ Len(conv[t].calls) >= 2
        /\ conv[t].calls[Len(conv[t].calls)].key = "docker_usd"
        /\ conv[t].usdz.returned

\* C9: no exception leaves convert_cif_to_usdz: whatever the steps and the
\* backends did, the call ends with a (success, message, info) triple, and
\* a failure carries a message saying what failed.
C9_StructuredResult ==
    \A t \in Threads :
        LET c == conv[t]
        IN  /\ c.pc \in {"idle", "mkdtemp", "cif", "pkg", "std", "pixar_pkg", "returned"}
            /\ c.pc = "returned"
               => /\ c.result.returned
                  /\ c.result.success \in BOOLEAN
                  /\ c.result.success <=> c.result.message = "ok"
                  /\ c.result.message \in
                       {"ok", "cif_missing", "no_cif_converter", "no_usdz_converter",
                        "cif_failed", "usdz_failed", "no_output", "error"}

\* C9 witness: an exception raised inside the try block (by mkdtemp) ended
\* as a structured failure.
C9_Witness ==
    \E t \in Threads :
        /\ conv[t].pc = "returned"
        /\ conv[t].result.message = "error"
        /\ ~conv[t].result.success

\* C10: every backend that is tried in a conversion with materials works
\* on standardized materials, whichever backend it is.  (The Pixar backend
\* standardizes on entry, so its materials are judged when it reads them.)
C10_StandardizedBeforePackaging ==
    \A t \in Threads :
        \A j \in 1..Len(conv[t].calls) :
            (conv[t].calls[j].used /\ conv[t].calls[j].mtl) => conv[t].calls[j].std

\* C11: a structure with zero atoms stops the conversion before any
\* packaging backend is called: its cif_to_obj step is never recorded as a
\* success, no backend method is called for it, and what the conversion
\* returns is a failure.
C11_ZeroAtomsStopBeforePackaging ==
    \A t \in Threads :
        LET c == conv[t]
        IN  c.atoms = 0
            => /\ c.pc \notin {"pkg", "std", "pixar_pkg"}
               /\ c.calls = << >>
               /\ \A i \in 1..Len(c.result.steps) : ~c.result.steps[i].success
               /\ c.result.returned => ~c.result.success

\* C12: once the cif_to_obj step is recorded as failed the conversion has
\* returned a failure, no packaging backend was called or recorded, and
\* the step list holds the failed cif_to_obj step and nothing else.
C12_CifFailureShortCircuits ==
    \A t \in Threads :
        LET c == conv[t]
        IN  (c.result.steps # << >> /\ ~c.result.steps[1].success)
            => /\ c.pc \in {"returned", "idle"}
               /\ c.result.returned
               /\ ~c.result.success
               /\ c.result.steps = << Step("cif_to_obj", FALSE) >>
               /\ c.calls = << >>
               /\ c.attempts = << >>
               /\ ~c.usdz.returned

\* C12 witness: a structure was parsed, writing its mesh failed, and the
\* conversion returned with the failed cif_to_obj step alone.
C12_Witness ==
    \E t \in Threads :
        /\ conv[t].pc = "returned"
        /\ conv[t].atoms > 0
        /\ conv[t].result.message = "cif_failed"
        /\ conv[t].result.steps = << Step("cif_to_obj", FALSE) >>

\* The names result['warnings'] holds a failure message for.
WarnedNames(r) == {r.result.warnings[i] : i \in 1..Len(r.result.warnings)}

\* The static order restricted to the loaded backends, a loaded preferred
\* backend moved to the front.
StatedParserOrder == << "pymatgen", "ase", "builtin" >>

ExpectedOrder(preferred, loaded) ==
    LET Loaded(c) == c \in loaded
        NotPreferred(c) == c # preferred
        base == SelectSeq(StatedParserOrder, Loaded)
    IN  IF preferred \in loaded
        THEN << preferred >> \o SelectSeq(base, NotPreferred)
        ELSE base

\* C13: when the first backend tried raised and the second one succeeded,
\* convert_cif_to_obj has returned success, converter_used names the
\* second backend, and the warnings hold the first backend's failure.
C13_ParserFallback ==
    ( /\ Len(rc.tried) >= 2
      /\ rc.tried[1].outcome = "raise"
      /\ rc.tried[2].outcome = "ok" )
    => /\ rc.pc = "returned"
       /\ rc.result.success
       /\ rc.result.converter_used = rc.tried[2].name
       /\ rc.result.converter_used = rc.order[2]
       /\ rc.tried[1].name \in WarnedNames(rc)

\* C13 witness: pymatgen raised, ase succeeded and the call returned.
C13_Witness ==
    /\ rc.pc = "returned"
    /\ rc.tried = << [name |-> "pymatgen", outcome |-> "raise"],
                     [name |-> "ase", outcome |-> "ok"] >>
    /\ rc.result.success

\* C14: once convert_cif_to_obj has returned, every backend that was tried
\* and did not succeed, by raising or by answering False, has a failure
\* reason in the diagnostics, whether or not a later backend succeeded.
C14_EveryFailureRecorded ==
    rc.pc = "returned"
    => \A i \in 1..Len(rc.tried) :
          rc.tried[i].outcome # "ok" => rc.tried[i].name \in WarnedNames(rc)

\* C15: the order of a call is the static order pymatgen, ase, builtin
\* restricted to the loaded backends with a loaded preferred backend moved
\* to the front; the backends are tried along it, each at most once, up to
\* the first that succeeds, which is reported as converter_used; and a
\* later call with the same preferred value has the same order.
C15_StaticParserOrder ==
    /\ (rc.pc = "loop" \/ (rc.pc = "returned" /\ rc.result.error # "cif_missing"))
       => rc.order = ExpectedOrder(rc.preferred, rc.converters)
    /\ \A i, j \in 1..Len(rc.order) : rc.order[i] = rc.order[j] => i = j
    /\ Len(rc.tried) <= Len(rc.order)
    /\ \A i \in 1..Len(rc.tried) :
          /\ rc.tried[i].name = rc.order[i]
          /\ i < Len(rc.tried) => rc.tried[i].outcome # "ok"
    /\ rc.result.success
       <=> (rc.tried # << >> /\ rc.tried[Len(rc.tried)].outcome = "ok")
    /\ rc.result.success
       => rc.result.converter_used = rc.tried[Len(rc.tried)].name
    /\ (rc.pc = "returned" /\ ~rc.result.success /\ rc.result.error # "cif_missing")
       => Len(rc.tried) = Len(rc.order)
    /\ \A k \in 1..Len(rc.seen) :
          (rc.order # << >> /\ rc.seen[k].preferred = rc.preferred)
          => rc.seen[k].order = rc.order

\* C15 witness: in the second call with ase preferred and all three
\* backends loaded, ase and pymatgen failed and builtin succeeded.
C15_Witness ==
    /\ rc.pc = "returned"
    /\ rc.preferred = "ase"
    /\ rc.seen # << >>
    /\ rc.seen[1].preferred = "ase"
    /\ rc.order = << "ase", "pymatgen", "builtin" >>
    /\ Len(rc.tried) = 3
    /\ rc.result.converter_used = "builtin"

\* The material table of an MTL file as its readers see it: the colour of
\* each material name.
TableOf(mtl) ==
    {<< ParseMtlFile(mtl)[i].name, ParseMtlFile(mtl)[i].kd >> :
        i \in 1..Len(ParseMtlFile(mtl))}

TableNames(mtl) == {ParseMtlFile(mtl)[i].name : i \in 1..Len(ParseMtlFile(mtl))}

\* The canonical table colour of an element.
CanonicalColor(element) ==
    LET i == CHOOSE j \in 1..Len(STANDARD_CPK_COLORS) :
                 STANDARD_CPK_COLORS[j][1] = element
    IN  << STANDARD_CPK_COLORS[i][2], STANDARD_CPK_COLORS[i][3],
           STANDARD_CPK_COLORS[i][4] >>

\* C16: standardization is idempotent: a successful call on the output of
\* a successful call, with the same preserve_colors, leaves the material
\* table (names and colours) and every usemtl reference as they were.
C16_StandardizeIdempotent ==
    ms.okRun >= 2
    => /\ TableOf(ms.mtl) = TableOf(ms.prevMtl)
       /\ ms.obj = ms.prevObj

\* C16 witness: two successful calls with preserve_colors on a file the
\* first call renamed to C_MAT and Na_MAT.
C16_Witness ==
    /\ ms.okRun = 2
    /\ ms.preserve
    /\ TableNames(ms.mtl) = {"C_MAT", "Na_MAT"}
    /\ ms.obj = << "C_MAT", "Na_MAT" >>

\* C17: after a successful standardization a material for which no tier
\* succeeded is still in the material table under its name, whether or
\* not other materials were resolved.
C17_UnresolvedKept ==
    (ms.pc = "done" /\ ms.ok)
    => \A i \in 1..Len(ms.log) :
          ms.log[i].element = None => ms.log[i].old_name \in TableNames(ms.mtl)

\* C18: after a successful standardization every material whose element
\* was inferred is named <Element>_MAT in the table and in the usemtl
\* lines; its colour is the element's canonical colour when
\* preserve_colors is false and the colour it had before when it is true.
C18_CanonicalNameAndColour ==
    (ms.pc = "done" /\ ms.ok)
    => \A i \in 1..Len(ms.log) :
          ms.log[i].element # None
          => /\ << ms.log[i].element \o "_MAT",
                   IF ms.preserve THEN ms.log[i].color
                   ELSE CanonicalColor(ms.log[i].element) >> \in TableOf(ms.mtl)
             /\ \A k \in 1..Len(ms.prevObj) :
                   ms.prevObj[k] = ms.log[i].old_name
                   => ms.obj[k] = ms.log[i].element \o "_MAT"

\* What each tier answers for a logged material.
ByName(m)  == ExtractElementFromName(m.old_name)
ByColor(m) == MatchElementByColor(Fine(m.color))
ByHex(m)   == InferFromHexName(m.old_name)

\* The tiers are applied in the order name, colour, hex and the first that
\* succeeds answers.
TiersInOrder(m) ==
    /\ ByName(m) # None => (m.element = ByName(m) /\ m.tier = "name")
    /\ (ByName(m) = None /\ ByColor(m) # None)
       => (m.element = ByColor(m) /\ m.tier = "colour")
    /\ (ByName(m) = None /\ ByColor(m) = None /\ ByHex(m) # None)
       => (m.element = ByHex(m) /\ m.tier = "hex")
    /\ (ByName(m) = None /\ ByColor(m) = None /\ ByHex(m) = None)
       => (m.element = None /\ m.tier = "none")

\* C19 as stated: the tiers are applied in the order name, colour, hex,
\* and a material named x909090 is inferred as carbon through the
\* hex-decode tier.
C19_HexNameViaHexTier ==
    \A i \in 1..Len(ms.log) :
        /\ TiersInOrder(ms.log[i])
        /\ ms.log[i].old_name = "x909090"
           => (ms.log[i].element = "C" /\ ms.log[i].tier = "hex")

\* C19 amended: the tiers are applied in the order name, colour, hex; a
\* material named x909090 whose own colour matches no canonical colour
\* within the tolerance is inferred as carbon through the hex-decode tier
\* and, when the call succeeds, is renamed C_MAT, with carbon's canonical
\* colour when preserve_colors is false.
C19_HexNameAfterColourTier ==
    \A i \in 1..Len(ms.log) :
        /\ TiersInOrder(ms.log[i])
        /\ (ms.log[i].old_name = "x909090" /\ ByColor(ms.log[i]) = None)
           => /\ ms.log[i].element = "C"
              /\ ms.log[i].tier = "hex"
              /\ ms.ok => "C_MAT" \in TableNames(ms.mtl)
              /\ (ms.ok /\ ~ms.preserve)
                 => << "C_MAT", CanonicalColor("C") >> \in TableOf(ms.mtl)

\* C19 witness: x909090 with the backends' dark carbon colour went through
\* the hex tier and the file now holds C_MAT with the canonical colour.
C19_Witness ==
    /\ ms.pc = "done"
    /\ ms.ok
    /\ ~ms.preserve
    /\ \E i \in 1..Len(ms.log) :
          /\ ms.log[i].old_name = "x909090"
          /\ ms.log[i].color = << 200, 200, 200 >>
          /\ ms.log[i].tier = "hex"
    /\ << "C_MAT", << 565, 565, 565 >> >> \in TableOf(ms.mtl)

\* C20: the bond list returned by get_bonds holds only pairs (i, j) with
\* i < j and holds no atom pair more than once, whatever the neighbour
\* search returned.
C20_BondsOrderedNoDuplicates ==
    bd.pc = "returned"
    => /\ \A k \in 1..Len(bd.bonds) : bd.bonds[k][1] < bd.bonds[k][2]
       /\ \A k, l \in 1..Len(bd.bonds) :
             (bd.bonds[k][1] = bd.bonds[l][1] /\ bd.bonds[k][2] = bd.bonds[l][2])
             => k = l

\* The half of C20 that the i < j test gives: every returned pair is
\* ordered, and so never appears in both orders.
BondsOrdered ==
    \A k \in 1..Len(bd.bonds) : bd.bonds[k][1] < bd.bonds[k][2]

\* C26: after standardize_obj_materials returns, every material name of a
\* usemtl line of the OBJ file is defined in the MTL file.
C26_UsemtlDefined ==
    ms.pc = "done"
    => \A k \in 1..Len(ms.obj) : ms.obj[k] \in TableNames(ms.mtl)

\* C27: a packaging attempt that fails leaves the OBJ and MTL files as they
\* were before it, so that what the next backend is handed is what the
\* failed one was handed.
C27_FailedAttemptLeavesFiles ==
    \A t \in Threads :
        \A k \in 1..Len(conv[t].calls) :
            k > 1 => conv[t].calls[k].given = conv[t].calls[k - 1].given

\* The name converter_priority gives to a backend key.
NameOfKey(key) ==
    IF \E i \in 1..Len(converter_priority) : converter_priority[i].key = key
    THEN converter_priority[CHOOSE i \in 1..Len(converter_priority) :
                               converter_priority[i].key = key].name
    ELSE "none"

\* C28: in the attempts _convert_obj_to_usdz returns at most one entry is
\* marked successful; a successful entry is the last one, the overall
\* result is then success and names that backend; an overall failure has
\* no successful entry.
C28_OneSuccessfulAttempt ==
    \A t \in Threads :
        LET c == conv[t]
            n == Len(c.attempts)
        IN  c.usdz.returned
            => /\ \A i, j \in 1..n :
                     (c.attempts[i].success /\ c.attempts[j].success) => i = j
               /\ \A i \in 1..n :
                     c.attempts[i].success
                     => /\ i = n
                        /\ c.usdz.success
                        /\ c.attempts[i].converter = NameOfKey(c.usdz.converter)
               /\ ~c.usdz.success => \A i \in 1..n : ~c.attempts[i].success

\* _convert_obj_to_usdz returned success after an earlier backend was
\* called and failed.
C28_Witness ==
    \E t \in Threads :
        /\ conv[t].usdz.returned
        /\ conv[t].usdz.success
        /\ Len(conv[t].calls) >= 2
        /\ conv[t].attempts[Len(conv[t].attempts)].success

\* The groups of the OBJ file that are spheres, and those that are
\* cylinders.
IsAtomGroup(g) == g.kind = "atom"
IsBondGroup(g) == g.kind = "bond"

\* Every index of every face of group g is one of g's own vertices.
OwnVertices(g) ==
    \A k \in 1..Len(g.faces) : \A v \in 1..3 :
        g.offset < g.faces[k][v] /\ g.faces[k][v] <= g.offset + g.nverts

\* C21: every bond of a conversion joins two atoms whose cartesian
\* distance is at most the sum of their covalent radii times the cutoff
\* factor, whichever backend made the bonds.
C21_BondsWithinCutoff ==
    (mb.pc = "done" /\ mb.success)
    => \A k \in 1..Len(mb.bonds) :
          LET a == At(mb.atoms, mb.bonds[k][1])
              b == At(mb.atoms, mb.bonds[k][2])
          IN  Abs(a.pos - b.pos)
                 <= (CovalentRadius(a.symbol) + CovalentRadius(b.symbol)) * cutoff_factor

\* The element has no radius entry in the table the backend sizes with.
NoRadiusEntry(backend, symbol) ==
    IF backend = "pymatgen" THEN ~HasEntry(element_radii, symbol)
    ELSE ~HasEntry(covalent_radii, symbol)

\* C22: with an element that has no radius entry in the structure the
\* backend still succeeds, every atom gets its sphere, the atoms without
\* an entry all get one and the same radius, every bond found is drawn,
\* and the neighbour search of ASE still bonds two atoms at one place.
C22_MissingRadiusDefault ==
    (/\ mb.pc = "done"
     /\ mb.io = "ok"
     /\ \E i \in 1..Len(mb.atoms) : NoRadiusEntry(mb.backend, mb.atoms[i].symbol))
    => /\ mb.success
       /\ \A i \in 1..Len(mb.atoms) :
             \E k \in 1..Len(mb.groups) :
                /\ IsAtomGroup(mb.groups[k])
                /\ mb.groups[k].a = i - 1
                /\ mb.groups[k].nverts = SphereVertexCount(mb.resolution)
       /\ \A k, l \in 1..Len(mb.groups) :
             (/\ IsAtomGroup(mb.groups[k]) /\ IsAtomGroup(mb.groups[l])
              /\ NoRadiusEntry(mb.backend, At(mb.atoms, mb.groups[k].a).symbol)
              /\ NoRadiusEntry(mb.backend, At(mb.atoms, mb.groups[l].a).symbol))
             => mb.groups[k].radius = mb.groups[l].radius
       /\ Len(SelectSeq(mb.groups, IsBondGroup)) = Len(mb.bonds)
       /\ mb.backend = "ase"
          => \A i, j \in 1..Len(mb.atoms) :
                (/\ i < j
                 /\ mb.atoms[i].pos = mb.atoms[j].pos
                 /\ NoRadiusEntry("ase", mb.atoms[i].symbol))
                => \E k \in 1..Len(mb.bonds) : mb.bonds[k] = << i - 1, j - 1 >>

\* The ASE backend converted a structure with two atoms of an element
\* without radius entry at one place, and bonded them.
C22_Witness ==
    /\ mb.pc = "done"
    /\ mb.success
    /\ mb.backend = "ase"
    /\ mb.bonds # << >>
    /\ \E i, j \in 1..Len(mb.atoms) :
          /\ i < j
          /\ NoRadiusEntry("ase", mb.atoms[i].symbol)
          /\ NoRadiusEntry("ase", mb.atoms[j].symbol)

\* C23: a conversion asked for with a scale factor <= 0 reports failure
\* and writes no mesh.
C23_NonPositiveScaleFails ==
    (mb.pc = "done" /\ mb.scale_factor <= 0)
    => (~mb.success /\ mb.groups = << >>)

\* The ring of a sphere a face index lies on, rings counted from 0.
RingOf(g, index, resolution) == (index - g.offset - 1) \div (2 * resolution)

\* C24: for a resolution >= 2 no triangle of a sphere has two of its
\* vertices on the same pole ring (the first ring or the last one).
C24_NoPoleRowTriangles ==
    (mb.pc = "done" /\ mb.success /\ mb.resolution >= 2)
    => \A k \in 1..Len(mb.groups) :
          IsAtomGroup(mb.groups[k])
          => \A f \in 1..Len(mb.groups[k].faces) :
                \A u, v \in 1..3 :
                   LET g == mb.groups[k]
                       ru == RingOf(g, g.faces[f][u], mb.resolution)
                       rv == RingOf(g, g.faces[f][v], mb.resolution)
                   IN  (u # v /\ ru = rv) => (ru # 0 /\ ru # mb.resolution)

\* C25: every face of the OBJ file references vertices between 1 and the
\* number of vertices written, and every face of a sphere references
\* vertices of that sphere.
C25_FaceIndicesInRange ==
    (mb.pc = "done" /\ mb.success)
    => \A k \in 1..Len(mb.groups) :
          /\ \A f \in 1..Len(mb.groups[k].faces) : \A v \in 1..3 :
                /\ 1 <= mb.groups[k].faces[f][v]
                /\ mb.groups[k].faces[f][v] <= mb.vertex_offset
          /\ IsAtomGroup(mb.groups[k]) => OwnVertices(mb.groups[k])

\* The two ends of the cylinder of group g as the backend places them.
Coincide(g) ==
    IF mb.backend = "ase"
    THEN At(mb.atoms, g.a).pos * EffectiveScale(mb.via, mb.scale_factor)
            = At(mb.atoms, g.b).pos * EffectiveScale(mb.via, mb.scale_factor)
    ELSE At(mb.atoms, g.a).pos = At(mb.atoms, g.b).pos

\* C29: a bond whose two ends coincide adds no vertex and no face, the
\* group written after it starts at the same vertex offset, and the faces
\* of every group written after it reference that group's own vertices.
C29_ZeroLengthBondSkipped ==
    (mb.pc = "done" /\ mb.success)
    => \A k \in 1..Len(mb.groups) :
          (IsBondGroup(mb.groups[k]) /\ Coincide(mb.groups[k]))
          => /\ mb.groups[k].nverts = 0
             /\ mb.groups[k].faces = << >>
             /\ k < Len(mb.groups) => mb.groups[k + 1].offset = mb.groups[k].offset
             /\ \A l \in (k + 1)..Len(mb.groups) : OwnVertices(mb.groups[l])

\* A bond of length 0 was followed by a bond that has a cylinder.
C29_Witness ==
    /\ mb.pc = "done"
    /\ mb.success
    /\ \E k, l \in 1..Len(mb.groups) :
          /\ k < l
          /\ IsBondGroup(mb.groups[k])
          /\ Coincide(mb.groups[k])
          /\ IsBondGroup(mb.groups[l])
          /\ mb.groups[l].nverts > 0


\* The directory of session k.
SessionDir(k) ==
    om.disk[CHOOSE d \in 1..Len(om.disk) : om.disk[d].id = om.sessions[k].session_id]

\* The request of session k has returned.
Returned(k) == k < Len(om.sessions) \/ om.pc = "idle"

\* C30: no two sessions of OutputManager have the same session id (and
\* with it the same directory), and the metadata and the saved files of a
\* session whose request has returned are those of that session.
C30_SessionsDistinct ==
    /\ \A i, j \in 1..Len(om.sessions) :
          i # j => om.sessions[i].session_id # om.sessions[j].session_id
    /\ \A k \in 1..Len(om.sessions) :
          Returned(k)
          => /\ SessionDir(k).metadata.created_by = k
             /\ SessionDir(k).original_cif = k
             /\ SessionDir(k).final_usdz \in {0, k}
             /\ SessionDir(k).metadata.status # "created"

========================================================================
